---- MODULE Spec2Model ----
(***************************************************************************)
(* A state-machine model of OctoPrint's plugin subsystem facade            *)
(* (src/src/octoprint/plugin/__init__.py): the plugin_manager singleton    *)
(* factory, the call_plugin dispatch loop and the PluginSettings facade,   *)
(* and of JobData.update (src/src/octoprint/schema/printer/__init__.py).   *)
(*                                                                         *)
(* PluginManager (octoprint.plugin.core) and the Settings store            *)
(* (octoprint.settings) are collaborators whose code is not part of the    *)
(* modelled sources; what the model needs of them (the constructor, the    *)
(* enable/disable mutations, get_implementations, the store's get/set) is  *)
(* written from their documented contract and marked as such below.        *)
(*                                                                         *)
(* Spec          the registry and the dispatcher, driven by a sequence of  *)
(*               host calls; call_plugin advances one plugin per step.     *)
(* SettingsSpec  the PluginSettings facade over the shared store.          *)
(* TypedSpec     the typed accessors with min, max and fallback.           *)
(* OverlaySpec   the overlays a plugin adds and removes.                   *)
(* BulkSpec      merged reads and the bulk operations of the facade.       *)
(* LoaderSpec    discovery and the filtering pipeline of the registry.     *)
(* FactorySpec   plugin_settings_for_settings_plugin.                      *)
(* ArgumentsSpec dispatches that hand arguments on to the plugins' method. *)
(* ViewSpec      two facades of one plugin and direct writes to the store. *)
(* IsolationSpec scoped writes of two plugins next to global writes.       *)
(* SnapshotSpec  a dispatch on the singleton while plugins are enabled,    *)
(*               disabled and re-ranked.                                   *)
(* MutationSpec  a dispatch on the singleton while another thread enables  *)
(*               and disables plugins.                                     *)
(* RaceSpec      plugin_manager(init=True) called by concurrent threads,   *)
(*               one statement per step.                                   *)
(* WriteRaceSpec concurrent threads writing one setting through the facade. *)
(* JobSpec       JobData.update applied to a receiver and an argument.     *)
(***************************************************************************)
EXTENDS Integers, Sequences, FiniteSets, TLC

VARIABLES
    _instance,    \* the module-level singleton: None or a manager id
    constructed,  \* history: PluginManager objects plugin_manager has constructed
    managers,     \* managers[i]: the registry of the i-th constructed manager
    last,         \* the most recent plugin_manager call and how it ended
    dispatch,     \* the call_plugin invocation in progress or last finished
    store,        \* the Settings store: its explicitly stored values
    scall,        \* the most recent facade call and the store call it made
    overlays,     \* the Settings store: its registered overlays and the keys issued
    loader,       \* the registry's loader: the descriptors of the candidates found
    factory,      \* the most recent call of a PluginSettings factory and its result
    threads,      \* the calls of concurrent host threads that are under way
    job           \* a JobData object, the argument of its update and what became of them

regvars == <<_instance, constructed, managers, last, dispatch>>
setvars == <<store, scall, overlays>>
vars ==
    <<_instance, constructed, managers, last, dispatch, store, scall, overlays, loader,
      factory, threads, job>>

(***************************************************************************)
(* Bounds of the model.                                                    *)
(***************************************************************************)
MaxRank == 0      \* sorting overrides carry a rank in -1 .. MaxRank
MaxValue == 1     \* settings values are the integers 0 .. MaxValue
MaxNumber == 2    \* the typed accessors are tried on the numbers 0 .. MaxNumber
MaxOverlays == 2  \* add_overlay is called at most MaxOverlays times
MaxFound == 2     \* discovery finds at most MaxFound candidates

None == 0

(***************************************************************************)
(* The plugins of the modelled installation.  The identifier order of the  *)
(* source (lexicographic) is the numeric order here.  Plugin 3 implements  *)
(* only one of the two capability types, plugin 4 lacks the dispatched     *)
(* method and the instance of plugin 5 carries no _identifier attribute.   *)
(***************************************************************************)
Plugins == {1, 2, 3, 4, 5}
Types == {"T1", "T2"}
Contexts == {"x"}
NoContext == "None"

\* the plugins the host enables and disables while running
Toggled == {2, 3}

Tags(p) == IF p = 3 THEN {"T1"} ELSE {"T1", "T2"}
HasIdentifier(p) == p # 5
HasMethod(p) == p # 4
Identifier(p) == p

\* Discovery finds the plugins in this order; the position is the default rank.
Discovery == <<1, 2, 4, 5, 3>>
DefaultRank(p) == (CHOOSE i \in 1..Len(Discovery) : Discovery[i] = p) - 1

Range(s) == {s[i] : i \in 1..Len(s)}
IsPrefix(a, b) == Len(a) <= Len(b) /\ \A i \in 1..Len(a) : a[i] = b[i]

(***************************************************************************)
(* plugin_manager's arguments that matter to the registry: the disabled    *)
(* list and the sorting order, a set of <<identifier, context, rank>>.     *)
(***************************************************************************)
DisabledLists == {{}, {2}}
SortingOrders == {{}} \cup {{<<2, "x", r>>} : r \in (0 - 1)..MaxRank}
ManagerArgs ==
    [plugin_disabled_list : DisabledLists, plugin_sorting_order : SortingOrders]
NoArgs == [plugin_disabled_list |-> {}, plugin_sorting_order |-> {}]

(***************************************************************************)
(* PluginManager, from its contract: plugins on the disabled list start    *)
(* disabled and stay indexed, the sorting order is stored verbatim.        *)
(***************************************************************************)
PluginManager(args) ==
    [state |-> [p \in Plugins |->
                  IF p \in args.plugin_disabled_list THEN "disabled" ELSE "enabled"],
     sorting_order |-> args.plugin_sorting_order]

\* A manager the host built itself and hands to call_plugin as manager=...
ExplicitManager == PluginManager(NoArgs)

enable_plugin(reg, p) == [reg EXCEPT !.state[p] = "enabled"]
disable_plugin(reg, p) == [reg EXCEPT !.state[p] = "disabled"]

HasOverride(reg, p, ctx) == \E e \in reg.sorting_order : e[1] = p /\ e[2] = ctx
Rank(reg, p, ctx) ==
    IF ctx # NoContext /\ HasOverride(reg, p, ctx)
    THEN (CHOOSE e \in reg.sorting_order : e[1] = p /\ e[2] = ctx)[3]
    ELSE DefaultRank(p)
Precedes(reg, ctx, p, q) ==
    \/ Rank(reg, p, ctx) < Rank(reg, q, ctx)
    \/ Rank(reg, p, ctx) = Rank(reg, q, ctx) /\ Identifier(p) < Identifier(q)

RECURSIVE SortedBy(_, _, _)
SortedBy(S, reg, ctx) ==
    IF S = {} THEN <<>>
    ELSE LET m == CHOOSE x \in S : \A y \in S \ {x} : Precedes(reg, ctx, x, y)
         IN  <<m>> \o SortedBy(S \ {m}, reg, ctx)

Qualifies(reg, p, types) ==
    reg.state[p] = "enabled" /\ \A t \in Range(types) : t \in Tags(p)
get_implementations(reg, types, ctx) ==
    SortedBy({p \in Plugins : Qualifies(reg, p, types)}, reg, ctx)

(***************************************************************************)
(* plugin_manager(init, ...): what the call does, decided from _instance   *)
(* and init alone.                                                         *)
(***************************************************************************)
AlreadyInitialized == "ValueError: Plugin Manager already initialized"
NotInitialized == "ValueError: Plugin Manager not initialized yet"
ConstructorError == "PluginManager() raised"

\* variants of the decision with one of its checks lost
plugin_manager_branch_unguarded(inst, init) ==
    IF init THEN "construct" ELSE IF inst # None THEN "return" ELSE "raise_not_yet"
plugin_manager_branch_lazy(inst, init) ==
    IF inst # None
    THEN IF init THEN "raise_already" ELSE "return"
    ELSE "construct"
plugin_manager_branch_rebuild(inst, init) ==
    IF inst # None
    THEN IF init THEN "raise_already" ELSE "construct"
    ELSE IF init THEN "construct" ELSE "raise_not_yet"

plugin_manager_branch(inst, init) ==
    IF inst # None
    THEN IF init THEN "raise_already" ELSE "return"
    ELSE IF init THEN "construct" ELSE "raise_not_yet"

\* args=None, kwargs=None: None is written as a one-element marker
Omitted == [args |-> <<"None">>, kwargs |-> {"None"}]

\* no call_plugin invocation on record
Idle ==
    [pc |-> "idle", types |-> <<>>, ctx |-> NoContext, cb |-> FALSE, ecb |-> FALSE,
     mgr |-> "None", reg |-> ExplicitManager, plugins |-> <<>>, idx |-> 1,
     log |-> <<>>, error |-> <<"none", 0>>,
     passed |-> Omitted]

NoCall == [op |-> "none", init |-> FALSE, before |-> None, made |-> 0,
           outcome |-> "none", value |-> None]
Called(init, made, outcome, value) ==
    [op |-> "plugin_manager", init |-> init, before |-> _instance, made |-> made,
     outcome |-> outcome, value |-> value]

\* variant: the instance is stored before the constructor has finished
plugin_manager_storing_early(init, args) ==
    LET branch == plugin_manager_branch(_instance, init) IN
    /\ dispatch.pc # "running"
    /\ \/ /\ branch = "raise_already"
          /\ last' = Called(init, 0, AlreadyInitialized, None)
          /\ UNCHANGED <<_instance, constructed, managers>>
       \/ /\ branch = "return"
          /\ last' = Called(init, 0, "return", _instance)
          /\ UNCHANGED <<_instance, constructed, managers>>
       \/ /\ branch = "raise_not_yet"
          /\ last' = Called(init, 0, NotInitialized, None)
          /\ UNCHANGED <<_instance, constructed, managers>>
       \/ /\ branch = "construct"
          /\ constructed' = constructed + 1
          /\ managers' = Append(managers, PluginManager(args))
          /\ _instance' = constructed + 1
          /\ \/ last' = Called(init, 1, "return", constructed + 1)
             \/ last' = Called(init, 0, ConstructorError, None)
    /\ dispatch' = Idle
    /\ UNCHANGED <<store, scall, overlays, loader, factory, threads, job>>

plugin_manager(init, args) ==
    LET branch == plugin_manager_branch(_instance, init) IN
    /\ dispatch.pc # "running"
    /\ \/ /\ branch = "raise_already"
          /\ last' = Called(init, 0, AlreadyInitialized, None)
          /\ UNCHANGED <<_instance, constructed, managers>>
       \/ /\ branch = "return"
          /\ last' = Called(init, 0, "return", _instance)
          /\ UNCHANGED <<_instance, constructed, managers>>
       \/ /\ branch = "raise_not_yet"
          /\ last' = Called(init, 0, NotInitialized, None)
          /\ UNCHANGED <<_instance, constructed, managers>>
       \/ /\ branch = "construct"
          /\ \/ /\ constructed' = constructed + 1
                /\ managers' = Append(managers, PluginManager(args))
                /\ _instance' = constructed + 1
                /\ last' = Called(init, 1, "return", constructed + 1)
             \/ /\ last' = Called(init, 0, ConstructorError, None)
                /\ UNCHANGED <<_instance, constructed, managers>>
    /\ dispatch' = Idle
    /\ UNCHANGED <<store, scall, overlays, loader, factory, threads, job>>

(***************************************************************************)
(* call_plugin.  The arguments: types (one type, or a list or tuple of     *)
(* them), whether callback and error_callback are given, sorting_context,  *)
(* and manager (None, or a manager of the caller's own).                   *)
(***************************************************************************)
TypeArgs ==
    {[kind |-> "type", name |-> "T2", items |-> <<>>],
     [kind |-> "list", name |-> "", items |-> <<"T1">>],
     [kind |-> "tuple", name |-> "", items |-> <<"T1", "T2">>]}
ManagerArgValues == {"None", "explicit"}

\* if not isinstance(types, (list, tuple)): types = [types]
normalize_types(t) == IF t.kind \in {"list", "tuple"} THEN t.items ELSE <<t.name>>

\* variants: only the first type is passed on; the sorting context is dropped
query_types_first(t) == <<normalize_types(t)[1]>>
query_context_dropped(ctx) == NoContext

\* the types and the sorting context call_plugin hands to get_implementations
query_types(t) == normalize_types(t)
query_context(ctx) == ctx

\* the args and kwargs a caller passes: both omitted, or one positional and
\* one keyword argument
ArgumentChoices == {Omitted, [args |-> <<"a">>, kwargs |-> {<<"k", "v">>}]}

\* variant: the arguments are not handed to the method
method_arguments_dropped(passed) == [args |-> <<>>, kwargs |-> {}]

\* if args is None: args = []; if kwargs is None: kwargs = {};
\* getattr(plugin, method)(*args, **kwargs)
method_arguments(passed) ==
    [args |-> IF passed.args = <<"None">> THEN <<>> ELSE passed.args,
     kwargs |-> IF passed.kwargs = {"None"} THEN {} ELSE passed.kwargs]

(***************************************************************************)
(* What the plugin's method, the callback and the error_callback would do  *)
(* when called: return, raise an Exception, or (method and callback) raise *)
(* a BaseException that is no Exception, such as KeyboardInterrupt.        *)
(***************************************************************************)
Behaviours ==
    [m : {"return", "Exception", "BaseException"},
     c : {"return", "Exception", "BaseException"},
     e : {"return", "raise"}]

\* variant: the _identifier check is missing
invocable_unchecked(p) == HasMethod(p)

\* hasattr(plugin, "_identifier") and hasattr(plugin, method)
invocable(p) == HasIdentifier(p) /\ HasMethod(p)

\* if callback: callback(...), reached only when the method returned
callback_called(cb, o) == cb /\ o.m = "return"
\* the class of what the body of the try statement raises
raised_in_try(cb, o) ==
    IF o.m # "return" THEN o.m
    ELSE IF callback_called(cb, o) /\ o.c # "return" THEN o.c
    ELSE "none"
\* except Exception as exc
handled(cb, o) == raised_in_try(cb, o) = "Exception"
\* the exception object bound to exc
caught_exc(p, cb, o) ==
    IF o.m # "return" THEN <<"method_error", p>> ELSE <<"callback_error", p>>
\* if error_callback: error_callback(...)
error_callback_called(cb, ecb, o) == ecb /\ handled(cb, o)
\* variant: the handler re-raises after reporting
propagated_reraised(p, cb, ecb, o) ==
    IF raised_in_try(cb, o) # "none" THEN caught_exc(p, cb, o) ELSE <<"none", 0>>

\* variant: what error_callback raises is dropped
propagated_without_error_callback(p, cb, ecb, o) ==
    IF raised_in_try(cb, o) # "none" /\ ~handled(cb, o) THEN caught_exc(p, cb, o)
    ELSE <<"none", 0>>

\* what leaves call_plugin: what the handler does not catch, or what
\* error_callback raises inside the handler
propagated(p, cb, ecb, o) ==
    IF raised_in_try(cb, o) # "none" /\ ~handled(cb, o) THEN caught_exc(p, cb, o)
    ELSE IF error_callback_called(cb, ecb, o) /\ o.e = "raise"
         THEN <<"error_callback_error", p>>
    ELSE <<"none", 0>>

Event(ev, p, val, out) ==
    [ev |-> ev, inst |-> p, id |-> Identifier(p), val |-> val, out |-> out]

\* the calls one iteration of the loop makes for an invocable plugin, in order
iteration_events(p, passed, cb, ecb, o) ==
    <<Event("call", p, <<"args", method_arguments(passed)>>, o.m)>>
    \o (IF callback_called(cb, o)
        THEN <<Event("callback", p, <<"result", p>>, o.c)>> ELSE <<>>)
    \o (IF error_callback_called(cb, ecb, o)
        THEN <<Event("error_callback", p, caught_exc(p, cb, o), o.e)>> ELSE <<>>)

\* call_plugin up to the loop: resolve the manager, query the implementations
call_plugin(targ, passed, cb, ecb, ctx, mgr) ==
    LET branch == plugin_manager_branch(_instance, FALSE)
        reg == IF mgr = "explicit" THEN ExplicitManager ELSE managers[_instance]
        begun == [Idle EXCEPT !.types = normalize_types(targ), !.ctx = ctx,
                              !.cb = cb, !.ecb = ecb, !.mgr = mgr,
                              !.passed = passed]
    IN
    /\ dispatch.pc # "running"
    /\ IF mgr = "None" /\ branch # "return"
       THEN dispatch' = [begun EXCEPT !.pc = "raised",
                                      !.error = <<NotInitialized, 0>>]
       ELSE LET plugins == get_implementations(reg, query_types(targ),
                                               query_context(ctx))
            IN dispatch' = [begun EXCEPT
                              !.pc = IF plugins = <<>> THEN "done" ELSE "running",
                              !.reg = reg, !.plugins = plugins]
    /\ last' = NoCall
    /\ UNCHANGED <<_instance, constructed, managers, store, scall, overlays, loader, factory, threads, job>>

\* variant: the loop asks the registry again at every iteration
iterated_requeried(d, current) == get_implementations(current, d.types, d.ctx)

\* the list "for plugin in plugins" walks: the one bound before the loop,
\* whatever the registry holds by now
iterated(d, current) == d.plugins

\* one iteration of "for plugin in plugins"; the list iterator ends the loop
\* when its index has reached the end of the list
call_plugin_iteration ==
    /\ dispatch.pc = "running"
    /\ LET list == iterated(dispatch, IF dispatch.mgr = "explicit" THEN ExplicitManager
                                      ELSE managers[_instance])
           p == list[dispatch.idx]
           more == dispatch.idx < Len(list)
           onward == IF more THEN "running" ELSE "done"
       IN IF dispatch.idx > Len(list)
          THEN dispatch' = [dispatch EXCEPT !.pc = "done"]
          ELSE IF ~invocable(p)
          THEN dispatch' = [dispatch EXCEPT !.idx = IF more THEN @ + 1 ELSE @,
                                            !.pc = onward]
          ELSE \E o \in Behaviours :
                 LET err == propagated(p, dispatch.cb, dispatch.ecb, o)
                     log == dispatch.log
                            \o iteration_events(p, dispatch.passed, dispatch.cb,
                                                dispatch.ecb, o)
                 IN dispatch' =
                      IF err[1] # "none"
                      THEN [dispatch EXCEPT !.log = log, !.pc = "raised", !.error = err]
                      ELSE [dispatch EXCEPT !.log = log, !.pc = onward,
                                            !.idx = IF more THEN @ + 1 ELSE @]
    /\ UNCHANGED <<_instance, constructed, managers, last, store, scall, overlays, loader, factory, threads, job>>

(***************************************************************************)
(* The registry's enable and disable operations on the singleton.          *)
(***************************************************************************)
Enable(p) ==
    /\ _instance # None
    /\ dispatch.pc # "running"
    /\ managers[_instance].state[p] = "disabled"
    /\ managers' = [managers EXCEPT ![_instance] = enable_plugin(@, p)]
    /\ last' = NoCall
    /\ dispatch' = Idle
    /\ UNCHANGED <<_instance, constructed, store, scall, overlays, loader, factory, threads, job>>

Disable(p) ==
    /\ _instance # None
    /\ dispatch.pc # "running"
    /\ managers[_instance].state[p] = "enabled"
    /\ managers' = [managers EXCEPT ![_instance] = disable_plugin(@, p)]
    /\ last' = NoCall
    /\ dispatch' = Idle
    /\ UNCHANGED <<_instance, constructed, store, scall, overlays, loader, factory, threads, job>>

(***************************************************************************)
(* Enable and disable called by another thread.  call_plugin holds no lock *)
(* while it iterates, so nothing makes such a call wait for a dispatch     *)
(* that is under way; the mutation itself is one step of the registry.     *)
(***************************************************************************)
ConcurrentEnable(p) ==
    /\ _instance # None
    /\ managers[_instance].state[p] = "disabled"
    /\ managers' = [managers EXCEPT ![_instance] = enable_plugin(@, p)]
    /\ UNCHANGED <<_instance, constructed, last, dispatch, store, scall, overlays, loader, factory, threads, job>>

ConcurrentDisable(p) ==
    /\ _instance # None
    /\ managers[_instance].state[p] = "enabled"
    /\ managers' = [managers EXCEPT ![_instance] = disable_plugin(@, p)]
    /\ UNCHANGED <<_instance, constructed, last, dispatch, store, scall, overlays, loader, factory, threads, job>>

\* the host, a plugin method or a callback gives plugin 2 another rank in
\* context "x", or takes its override away
ConcurrentRerank(order) ==
    /\ _instance # None
    /\ managers[_instance].sorting_order # order
    /\ managers' = [managers EXCEPT ![_instance].sorting_order = order]
    /\ UNCHANGED <<_instance, constructed, last, dispatch, store, scall, overlays, loader, factory, threads, job>>

(***************************************************************************)
(* Settings.  A path argument is a Python list or tuple of keys.  Values   *)
(* are numbers taken up to Python's equality (True == 1 == 1.0), so int()  *)
(* and float() leave an integer's value alone and bool() maps it to 0 or   *)
(* 1; NoValue stands for None and Text for a string that is no number.    *)
(* A mapping keyed by paths (the store's content, a defaults or a          *)
(* preprocessors dict) is a set of <<path, x>>.                            *)
(***************************************************************************)
NoValue == 0 - 1
Text == 0 - 2
Values == 0..MaxValue

ListPath(items) == [kind |-> "list", items |-> items]
TuplePath(items) == [kind |-> "tuple", items |-> items]
NonePath == [kind |-> "None", items |-> <<>>]
TypeError == [kind |-> "TypeError", items |-> <<>>]

HasKey(m, k) == \E e \in m : e[1] = k
Lookup(m, k) == (CHOOSE e \in m : e[1] = k)[2]
Put(m, k, x) == {e \in m : e[1] # k} \cup {<<k, x>>}
Drop(m, k) == {e \in m : ~IsPrefix(k, e[1])}

\* a keyword argument that is passed, or not
NotGiven == [given |-> FALSE, map |-> {}]
Given(m) == [given |-> TRUE, map |-> m]
\* the keyword arguments of a call; NoValue for an option that is not passed
NoKwargs ==
    [defaults |-> NotGiven, preprocessors |-> NotGiven, min |-> NoValue, max |-> NoValue,
     fallback |-> NoValue, merged |-> NoValue, asdict |-> NoValue]

\* the callables used as preprocessors
Transform(name, v) ==
    IF name = "zero" THEN 0
    ELSE IF v \in {NoValue, Text} THEN v ELSE (v + 1) % (MaxValue + 1)

(***************************************************************************)
(* The Settings store, from its contract: a call is a method name, a path, *)
(* a value (setters) and keyword arguments.  An explicitly stored value    *)
(* wins over the defaults passed with the call; the preprocessor passed    *)
(* for exactly the path is applied after reading and before writing; the   *)
(* typed accessors convert; the setters and remove return nothing.         *)
(***************************************************************************)
StoreCall(method, path, value, kwargs) ==
    [method |-> method, path |-> path, value |-> value, kw |-> kwargs]
NoStoreCall == StoreCall("none", TypeError, NoValue, NoKwargs)

StoreGetters == {"get", "getInt", "getFloat", "getBoolean"}
StoreSetters == {"set", "setInt", "setFloat", "setBoolean"}
TypedMethods == {"getInt", "getFloat", "getBoolean", "setInt", "setFloat", "setBoolean"}
NumericMethods == {"getInt", "getFloat", "setInt", "setFloat"}

\* int(), float(), bool(): NoValue where there is nothing to convert or the
\* conversion fails
Convert(method, v) ==
    IF v = NoValue THEN NoValue
    ELSE IF method \in TypedMethods /\ v = Text THEN NoValue
    ELSE IF method \in {"getBoolean", "setBoolean"} THEN (IF v = 0 THEN 0 ELSE 1)
    ELSE v
\* min where the number is below min, max where it is above max
Clamped(call, v) ==
    LET raised == IF call.kw.min # NoValue /\ v < call.kw.min THEN call.kw.min ELSE v
    IN IF call.kw.max # NoValue /\ raised > call.kw.max THEN call.kw.max ELSE raised
PreprocessedAt(call, items, v) ==
    LET pp == call.kw.preprocessors IN
    IF pp.given /\ HasKey(pp.map, items) THEN Transform(Lookup(pp.map, items), v) ELSE v
Preprocessed(call, v) == PreprocessedAt(call, call.path.items, v)

\* the registered overlays, oldest first; only a dict can supply a value
\* passed[k] keeps the argument of the call that was answered with key k
NoOverlays == [issued |-> 0, layers |-> <<>>, passed |-> <<>>]
Supplies(layer, items) == layer.overlay.kind = "dict" /\ HasKey(layer.overlay.map, items)
Supplying(items) == {i \in 1..Len(overlays.layers) : Supplies(overlays.layers[i], items)}
Latest(S) == CHOOSE i \in S : \A j \in S : j <= i

\* the value a path resolves to: the stored value, else the most recently
\* added overlay that supplies it, else the default passed with the call
ValueAt(st, call, items) ==
    LET d == call.kw.defaults IN
    IF HasKey(st, items) THEN Lookup(st, items)
    ELSE IF Supplying(items) # {}
         THEN Lookup(overlays.layers[Latest(Supplying(items))].overlay.map, items)
    ELSE IF d.given /\ HasKey(d.map, items) THEN Lookup(d.map, items)
    ELSE NoValue
StoreRaw(st, call) == ValueAt(st, call, call.path.items)
StoreHas(st, call) ==
    \/ HasKey(st, call.path.items)
    \/ Supplying(call.path.items) # {}
    \/ call.kw.defaults.given /\ HasKey(call.kw.defaults.map, call.path.items)

\* what the call returns
StoreResult(st, call) ==
    IF call.method = "has" THEN (IF StoreHas(st, call) THEN 1 ELSE 0)
    ELSE IF call.method \in StoreGetters
         THEN LET raw == Preprocessed(call, StoreRaw(st, call)) IN
              IF call.method \in TypedMethods /\ raw = Text THEN call.kw.fallback
              ELSE IF call.method \in NumericMethods /\ raw # NoValue
                   THEN Clamped(call, Convert(call.method, raw))
              ELSE Convert(call.method, raw)
    ELSE NoValue
\* the subtree a get of the path returns: the stored leaves under it and, with
\* merged semantics, those of the overlays and of the defaults
StoreTree(st, call) ==
    LET under(m) == {e[1] : e \in {x \in m : IsPrefix(call.path.items, x[1])}}
        layered == UNION {under(overlays.layers[i].overlay.map) :
                            i \in {j \in 1..Len(overlays.layers) :
                                     overlays.layers[j].overlay.kind = "dict"}}
        leaves == under(st) \cup
                  (IF call.kw.merged = 1
                   THEN layered \cup (IF call.kw.defaults.given
                                      THEN under(call.kw.defaults.map) ELSE {})
                   ELSE {})
    IN {<<q, PreprocessedAt(call, q, ValueAt(st, call, q))>> : q \in leaves}
\* the stored values after the call; a value that cannot be converted is not written
StoreEffect(st, call) ==
    IF call.method \in StoreSetters
    THEN IF call.method \in TypedMethods /\ call.value = Text THEN st
         ELSE IF call.method \in NumericMethods /\ call.value # NoValue
              THEN Put(st, call.path.items,
                       Preprocessed(call, Clamped(call, Convert(call.method, call.value))))
         ELSE Put(st, call.path.items, Preprocessed(call, Convert(call.method, call.value)))
    ELSE IF call.method = "remove" THEN Drop(st, call.path.items)
    ELSE st
\* add_overlay issues a key and puts the overlay on top; remove_overlay drops it
StoreAddOverlay(ov, obj) ==
    [ov EXCEPT !.issued = @ + 1,
               !.layers = Append(@, [key |-> ov.issued + 1, overlay |-> obj])]
StoreRemoveOverlay(ov, key) ==
    [ov EXCEPT !.layers = SelectSeq(ov.layers, LAMBDA l : l.key # key)]

(***************************************************************************)
(* Python objects handed to add_overlay.  A dict argument is the sequence  *)
(* of its items <<key, value>> in insertion order.  What reaches the store *)
(* is a dict, given as a mapping keyed by paths, or a list whose first     *)
(* element is the dict {at[1]: {at[2]: leaf}} and whose other elements are *)
(* the strings rest.                                                       *)
(***************************************************************************)
DictKeys(d) == [i \in 1..Len(d) |-> d[i][1]]
DictMap(d) == {<<<<d[i][1]>>, d[i][2]>> : i \in 1..Len(d)}
DictObject(m) == [kind |-> "dict", map |-> m, at |-> <<>>, leaf |-> "", rest |-> <<>>]
ListObject(at, leaf, rest) == [kind |-> "list", map |-> {}, at |-> at, leaf |-> leaf, rest |-> rest]
IndexError == [kind |-> "IndexError", map |-> {}, at |-> <<>>, leaf |-> "", rest |-> <<>>]

(***************************************************************************)
(* PluginSettings.  The constructor keeps the plugin's defaults and        *)
(* preprocessors nested under ["plugins", plugin_key].                     *)
(***************************************************************************)
Nested(plugin_key, m) == {<<<<"plugins", plugin_key>> \o e[1], e[2]>> : e \in m}

\* variant: the defaults are kept as declared, not under ["plugins", plugin_key]
PluginSettings_defaults_unscoped(plugin_key, defaults, get_preprocessors, set_preprocessors) ==
    [plugin_key |-> plugin_key,
     defaults |->
        IF defaults.given
        THEN Given(Put(defaults.map, <<"_config_version">>, NoValue))
        ELSE NotGiven,
     get_preprocessors |-> Nested(plugin_key, get_preprocessors.map),
     set_preprocessors |-> Nested(plugin_key, set_preprocessors.map)]

PluginSettings(plugin_key, defaults, get_preprocessors, set_preprocessors) ==
    [plugin_key |-> plugin_key,
     defaults |->
        IF defaults.given
        THEN Given(Nested(plugin_key, Put(defaults.map, <<"_config_version">>, NoValue)))
        ELSE NotGiven,
     get_preprocessors |-> Nested(plugin_key, get_preprocessors.map),
     set_preprocessors |-> Nested(plugin_key, set_preprocessors.map)]

\* variant: the path is passed on as it came
_prefix_path_unscoped(self, path) == path

\* ["plugins", self.plugin_key] + path: a list plus a tuple is a TypeError
_prefix_path(self, path) ==
    LET p == IF path.kind = "None" THEN ListPath(<<>>) ELSE path IN
    IF p.kind = "list" THEN ListPath(<<"plugins", self.plugin_key>> \o p.items)
    ELSE TypeError

\* variant: the plugin's get preprocessors are not handed to the store
_add_getter_kwargs_without_preprocessors(self, kwargs) ==
    [kwargs EXCEPT
       !.defaults = IF ~kwargs.defaults.given /\ self.defaults.given
                    THEN self.defaults ELSE kwargs.defaults]

_add_getter_kwargs(self, kwargs) ==
    [kwargs EXCEPT
       !.defaults = IF ~kwargs.defaults.given /\ self.defaults.given
                    THEN self.defaults ELSE kwargs.defaults,
       !.preprocessors = IF ~kwargs.preprocessors.given
                         THEN Given(self.get_preprocessors) ELSE kwargs.preprocessors]
\* variant: only defaults and preprocessors reach the store, the caller's other
\* keyword arguments are lost
_add_setter_kwargs_only(self, kwargs) ==
    [NoKwargs EXCEPT
       !.defaults = IF ~kwargs.defaults.given /\ self.defaults.given
                    THEN self.defaults ELSE kwargs.defaults,
       !.preprocessors = IF ~kwargs.preprocessors.given
                         THEN Given(self.set_preprocessors) ELSE kwargs.preprocessors]

_add_setter_kwargs(self, kwargs) ==
    [kwargs EXCEPT
       !.defaults = IF ~kwargs.defaults.given /\ self.defaults.given
                    THEN self.defaults ELSE kwargs.defaults,
       !.preprocessors = IF ~kwargs.preprocessors.given
                         THEN Given(self.set_preprocessors) ELSE kwargs.preprocessors]

\* result = list(args); result[0] = {"plugins": {plugin_key: result[0]}}:
\* list() of a dict is the list of its keys, and [0] of an empty list raises
_wrap_overlay(self, args) ==
    LET result == DictKeys(args) IN
    IF result = <<>> THEN IndexError
    ELSE ListObject(<<"plugins", self.plugin_key>>, result[1], Tail(result))

\* the object add_overlay hands to the store, the key remove_overlay hands on
add_overlay(self, overlay) == _wrap_overlay(self, overlay)
remove_overlay(self, key) == key

\* variant: get reads the path as it came
get_unscoped(self, path, kwargs) ==
    StoreCall("get", path, NoValue, _add_getter_kwargs(self, kwargs))

\* the scoped methods: the store call each of them makes
has(self, path, kwargs) ==
    StoreCall("has", _prefix_path(self, path), NoValue, _add_getter_kwargs(self, kwargs))
get(self, path, kwargs) ==
    StoreCall("get", _prefix_path(self, path), NoValue, _add_getter_kwargs(self, kwargs))
\* variant: get_int asks the store for the raw value
get_int_unconverted(self, path, kwargs) ==
    StoreCall("get", _prefix_path(self, path), NoValue, _add_getter_kwargs(self, kwargs))

get_int(self, path, kwargs) ==
    StoreCall("getInt", _prefix_path(self, path), NoValue, _add_getter_kwargs(self, kwargs))
get_float(self, path, kwargs) ==
    StoreCall("getFloat", _prefix_path(self, path), NoValue, _add_getter_kwargs(self, kwargs))
get_boolean(self, path, kwargs) ==
    StoreCall("getBoolean", _prefix_path(self, path), NoValue,
              _add_getter_kwargs(self, kwargs))
set(self, path, value, kwargs) ==
    StoreCall("set", _prefix_path(self, path), value, _add_setter_kwargs(self, kwargs))
set_int(self, path, value, kwargs) ==
    StoreCall("setInt", _prefix_path(self, path), value, _add_setter_kwargs(self, kwargs))
set_float(self, path, value, kwargs) ==
    StoreCall("setFloat", _prefix_path(self, path), value, _add_setter_kwargs(self, kwargs))
set_boolean(self, path, value, kwargs) ==
    StoreCall("setBoolean", _prefix_path(self, path), value,
              _add_setter_kwargs(self, kwargs))
remove(self, path, kwargs) == StoreCall("remove", _prefix_path(self, path), NoValue, kwargs)

\* variant: merged is handed on as the caller passed it
get_all_data_merged_as_passed(self, kwargs) ==
    StoreCall("get", _prefix_path(self, NonePath), NoValue,
              [kwargs EXCEPT
                 !.asdict = IF @ = NoValue THEN 1 ELSE @,
                 !.defaults = IF @.given THEN @ ELSE self.defaults,
                 !.preprocessors = IF @.given THEN @ ELSE Given(self.get_preprocessors)])

\* kwargs.get(name, default) for merged, asdict, defaults and preprocessors,
\* then settings.get(self._prefix_path(), **kwargs)
get_all_data(self, kwargs) ==
    StoreCall("get", _prefix_path(self, NonePath), NoValue,
              [kwargs EXCEPT
                 !.merged = IF @ = NoValue THEN 1 ELSE @,
                 !.asdict = IF @ = NoValue THEN 1 ELSE @,
                 !.defaults = IF @.given THEN @ ELSE self.defaults,
                 !.preprocessors = IF @.given THEN @ ELSE Given(self.get_preprocessors)])

\* variant: everything under ["plugins"] is removed
clean_all_data_all_plugins(self) ==
    StoreCall("remove", ListPath(<<"plugins">>), NoValue, NoKwargs)

clean_all_data(self) == StoreCall("remove", _prefix_path(self, NonePath), NoValue, NoKwargs)

\* an attribute the class does not define is looked up on the store
StoreAttributes ==
    {"has", "get", "getInt", "getFloat", "getBoolean", "set", "setInt", "setFloat",
     "setBoolean", "remove", "add_overlay", "remove_overlay", "getBaseFolder"}
__getattr__(self, item) == IF item \in StoreAttributes THEN item ELSE "AttributeError"

\* variant: global_get adds the plugin's getter arguments like get does
global_get_with_plugin_kwargs(self, path, kwargs) ==
    StoreCall("get", path, NoValue, _add_getter_kwargs(self, kwargs))

\* the global methods
global_has(self, path, kwargs) == StoreCall("has", path, NoValue, kwargs)
global_remove(self, path, kwargs) == StoreCall("remove", path, NoValue, kwargs)
global_get(self, path, kwargs) == StoreCall("get", path, NoValue, kwargs)
global_get_int(self, path, kwargs) == StoreCall("getInt", path, NoValue, kwargs)
global_get_float(self, path, kwargs) == StoreCall("getFloat", path, NoValue, kwargs)
global_get_boolean(self, path, kwargs) == StoreCall("getBoolean", path, NoValue, kwargs)
global_set(self, path, value, kwargs) == StoreCall("set", path, value, kwargs)
global_set_int(self, path, value, kwargs) == StoreCall("setInt", path, value, kwargs)
global_set_float(self, path, value, kwargs) == StoreCall("setFloat", path, value, kwargs)
global_set_boolean(self, path, value, kwargs) == StoreCall("setBoolean", path, value, kwargs)

ScopedReaders == {"has", "get", "get_int", "get_float", "get_boolean"}
ScopedSetters == {"set", "set_int", "set_float", "set_boolean"}
ScopedOps == ScopedReaders \cup ScopedSetters \cup {"remove"}
GlobalReaders ==
    {"global_has", "global_get", "global_get_int", "global_get_float",
     "global_get_boolean"}
GlobalSetters == {"global_set", "global_set_int", "global_set_float", "global_set_boolean"}
GlobalOps == GlobalReaders \cup GlobalSetters \cup {"global_remove"}

\* the store call made by method op of the facade
method_call(op, self, path, value, kwargs) ==
    CASE op = "has" -> has(self, path, kwargs)
      [] op = "get" -> get(self, path, kwargs)
      [] op = "get_int" -> get_int(self, path, kwargs)
      [] op = "get_float" -> get_float(self, path, kwargs)
      [] op = "get_boolean" -> get_boolean(self, path, kwargs)
      [] op = "set" -> set(self, path, value, kwargs)
      [] op = "set_int" -> set_int(self, path, value, kwargs)
      [] op = "set_float" -> set_float(self, path, value, kwargs)
      [] op = "set_boolean" -> set_boolean(self, path, value, kwargs)
      [] op = "remove" -> remove(self, path, kwargs)
      [] op = "get_all_data" -> get_all_data(self, kwargs)
      [] op = "clean_all_data" -> clean_all_data(self)
      [] op = "global_has" -> global_has(self, path, kwargs)
      [] op = "global_remove" -> global_remove(self, path, kwargs)
      [] op = "global_get" -> global_get(self, path, kwargs)
      [] op = "global_get_int" -> global_get_int(self, path, kwargs)
      [] op = "global_get_float" -> global_get_float(self, path, kwargs)
      [] op = "global_get_boolean" -> global_get_boolean(self, path, kwargs)
      [] op = "global_set" -> global_set(self, path, value, kwargs)
      [] op = "global_set_int" -> global_set_int(self, path, value, kwargs)
      [] op = "global_set_float" -> global_set_float(self, path, value, kwargs)
      [] op = "global_set_boolean" -> global_set_boolean(self, path, value, kwargs)

\* what the method hands back: the global setters have no return statement
method_return(op, result) ==
    IF op \in GlobalSetters \cup {"clean_all_data"} THEN NoValue ELSE result

(***************************************************************************)
(* The facades of the modelled installation and what their callers pass.   *)
(* Plugin "foo" declares nothing; plugin "baz" declares a default for      *)
(* ["bar"] and a get and a set preprocessor for it; plugin "qux" declares  *)
(* a default for ["x"] and no preprocessor.                                *)
(***************************************************************************)
PluginKeys == {"foo", "baz"}
DeclaredDefaults(key) ==
    IF key = "baz" THEN {<<<<"bar">>, 1>>} ELSE IF key = "qux" THEN {<<<<"x">>, 0>>} ELSE {}
Facade(key) ==
    IF key = "baz"
    THEN PluginSettings("baz", Given(DeclaredDefaults("baz")),
                        Given({<<<<"bar">>, "succ">>}), Given({<<<<"bar">>, "succ">>}))
    ELSE IF key = "qux"
    THEN PluginSettings("qux", Given(DeclaredDefaults("qux")), Given({}), Given({}))
    ELSE PluginSettings(key, NotGiven, Given({}), Given({}))

RelativePaths == {ListPath(<<"bar">>), TuplePath(<<"bar">>)}
GlobalPaths == {ListPath(<<"plugins", "baz", "bar">>), TuplePath(<<"server", "port">>)}
CallerPreprocessors ==
    {<<<<"plugins", "baz", "bar">>, "zero">>, <<<<"server", "port">>, "zero">>}
CallerDefaults == {<<<<"plugins", "foo", "bar">>, 0>>, <<<<"server", "port">>, 0>>}
KwargsChoices ==
    {NoKwargs,
     [NoKwargs EXCEPT !.preprocessors = Given(CallerPreprocessors)],
     [NoKwargs EXCEPT !.defaults = Given(CallerDefaults)]}

\* via: the object called; after: the op and via of the call made before
NoPrior == [op |-> "none", via |-> "none"]
NoFacadeCall ==
    [op |-> "none", key |-> "", path |-> NonePath, value |-> NoValue, kw |-> NoKwargs,
     outcome |-> "none", sent |-> NoStoreCall, result |-> NoValue, tree |-> {},
     dict |-> <<>>, via |-> "none", after |-> NoPrior]

\* one call of a method of the facade self, the store's part included
FacadeCallOn(self, via, after, op, path, value, kwargs) ==
    LET call == method_call(op, self, path, value, kwargs)
        asked == [NoFacadeCall EXCEPT !.op = op, !.key = self.plugin_key, !.path = path,
                                      !.value = value, !.kw = kwargs,
                                      !.via = via, !.after = after]
    IN
    /\ IF call.path.kind = "TypeError"
       THEN /\ scall' = [asked EXCEPT !.outcome = "TypeError"]
            /\ store' = store
       ELSE /\ scall' = [asked EXCEPT !.outcome = "ok", !.sent = call,
                                      !.result = method_return(op, StoreResult(store, call)),
                                      !.tree = IF call.method = "get"
                                               THEN StoreTree(store, call) ELSE {}]
            /\ store' = StoreEffect(store, call)
    /\ UNCHANGED <<_instance, constructed, managers, last, dispatch, overlays, loader, factory, threads, job>>

\* a call of the facade the plugin was given
FacadeCall(op, key, path, value, kwargs) ==
    FacadeCallOn(Facade(key), "facade", NoPrior, op, path, value, kwargs)

\* settings.set(path, value) by a caller that holds the store itself
StoreSet(after, key, path, value) ==
    LET call == StoreCall("set", path, value, NoKwargs) IN
    /\ scall' = [NoFacadeCall EXCEPT !.op = "settings.set", !.key = key, !.path = path,
                                     !.value = value, !.outcome = "ok", !.sent = call,
                                     !.via = "store", !.after = after]
    /\ store' = StoreEffect(store, call)
    /\ UNCHANGED <<_instance, constructed, managers, last, dispatch, overlays, loader, factory, threads, job>>

(***************************************************************************)
(* The loader behind plugin_manager(init=True, ...).  plugin_manager fills *)
(* in the arguments left out and constructs the PluginManager with them;   *)
(* that discovers candidates one by one, resolves each to a descriptor and *)
(* runs it through the filtering pipeline of its contract.  A candidate    *)
(* has an identifier, an origin, the hook namespaces it implements,        *)
(* whether the host meets its compatibility constraints, and whether the   *)
(* host's custom validator accepts it.                                     *)
(***************************************************************************)
NoList == [given |-> FALSE, map |-> <<>>]
LoaderArgs ==
    [plugin_disabled_list : {{}, {"a"}},
     plugin_blacklist : {{}, {"a"}},
     plugin_obsolete_hooks : {NotGiven, Given({})},
     plugin_validators : {NoList, Given(<<"host_check">>)},
     compatibility_ignored_list : {{}, {"a"}}]

_validate_plugin(phase, plugin_info) == TRUE

\* variant: the disabled list does not reach the constructor
constructor_kwargs_without_disabled_list(args) ==
    [plugin_disabled_list |-> {},
     plugin_blacklist |-> args.plugin_blacklist,
     plugin_obsolete_hooks |->
        IF args.plugin_obsolete_hooks.given THEN args.plugin_obsolete_hooks.map
        ELSE {"octoprint.comm.protocol.gcode"},
     plugin_validators |->
        IF args.plugin_validators.given
        THEN Append(args.plugin_validators.map, "_validate_plugin")
        ELSE <<"_validate_plugin">>,
     compatibility_ignored_list |-> args.compatibility_ignored_list]

\* the keyword arguments plugin_manager constructs the PluginManager with
constructor_kwargs(args) ==
    [plugin_disabled_list |-> args.plugin_disabled_list,
     plugin_blacklist |-> args.plugin_blacklist,
     plugin_obsolete_hooks |->
        IF args.plugin_obsolete_hooks.given THEN args.plugin_obsolete_hooks.map
        ELSE {"octoprint.comm.protocol.gcode"},
     plugin_validators |->
        IF args.plugin_validators.given
        THEN Append(args.plugin_validators.map, "_validate_plugin")
        ELSE <<"_validate_plugin">>,
     compatibility_ignored_list |-> args.compatibility_ignored_list]

Origins == {"folder", "entry_point"}
Candidates ==
    [identifier : {"a"}, origin : Origins,
     hooks : {{}, {"octoprint.comm.protocol.gcode"}}, compatible : BOOLEAN, valid : BOOLEAN]
    \cup [identifier : {"b"}, origin : Origins, hooks : {{}}, compatible : {TRUE},
          valid : {TRUE}]

Validate(name, phase, c) ==
    IF name = "_validate_plugin" THEN _validate_plugin(phase, c) ELSE c.valid

\* the filtering pipeline: the first check that rejects decides the state
Filtered(cfg, c) ==
    IF c.identifier \in cfg.plugin_disabled_list THEN "disabled"
    ELSE IF c.hooks \cap cfg.plugin_obsolete_hooks # {} THEN "rejected-obsolete-hook"
    ELSE IF /\ c.identifier \in cfg.plugin_blacklist
            /\ c.identifier \notin cfg.compatibility_ignored_list
         THEN "rejected-blacklisted"
    ELSE IF ~c.compatible /\ c.identifier \notin cfg.compatibility_ignored_list
         THEN "rejected-incompatible"
    ELSE IF \E i \in 1..Len(cfg.plugin_validators) :
               ~Validate(cfg.plugin_validators[i], "before_load", c)
         THEN "rejected-validator"
    ELSE "enabled"

Descriptor(c, state, error) == [candidate |-> c, state |-> state, error |-> error]

\* variant: a candidate with a known identifier is filtered like any other
Resolved_without_conflict(cfg, found, c) == Descriptor(c, Filtered(cfg, c), "none")

\* the descriptor of a candidate: a later candidate with the identifier of an
\* earlier one is rejected with a conflict error
Resolved(cfg, found, c) ==
    IF \E i \in 1..Len(found) : found[i].candidate.identifier = c.identifier
    THEN Descriptor(c, "rejected", "conflict")
    ELSE Descriptor(c, Filtered(cfg, c), "none")

NoLoaderArgs ==
    [plugin_disabled_list |-> {}, plugin_blacklist |-> {}, plugin_obsolete_hooks |-> NotGiven,
     plugin_validators |-> NoList, compatibility_ignored_list |-> {}]
NoLoader ==
    [started |-> FALSE, args |-> NoLoaderArgs, cfg |-> constructor_kwargs(NoLoaderArgs),
     found |-> <<>>]

LoaderStart(args) ==
    /\ ~loader.started
    /\ loader' = [started |-> TRUE, args |-> args, cfg |-> constructor_kwargs(args),
                  found |-> <<>>]
    /\ UNCHANGED <<_instance, constructed, managers, last, dispatch, store, scall, overlays, factory, threads, job>>

Discover(c) ==
    /\ loader.started
    /\ Len(loader.found) < MaxFound
    /\ \A i \in 1..Len(loader.found) :
          ~(/\ loader.found[i].candidate.identifier = c.identifier
            /\ loader.found[i].candidate.origin = c.origin)
    /\ loader' = [loader EXCEPT !.found = Append(@, Resolved(loader.cfg, loader.found, c))]
    /\ UNCHANGED <<_instance, constructed, managers, last, dispatch, store, scall, overlays, factory, threads, job>>

(***************************************************************************)
(* plugin_settings and plugin_settings_for_settings_plugin.  The instance  *)
(* handed in is a SettingsPlugin or not, and its                           *)
(* get_settings_preprocessors returns a pair of mappings, raises an        *)
(* Exception, or raises a BaseException that is no Exception.              *)
(***************************************************************************)
PreprocessorMaps == {{}, {<<<<"bar">>, "succ">>}, {<<<<"bar">>, "zero">>}}
Instances ==
    [settings_plugin : BOOLEAN, behaviour : {"return", "Exception", "BaseException"},
     get : PreprocessorMaps, set : PreprocessorMaps]

plugin_settings(plugin_key, defaults, get_preprocessors, set_preprocessors) ==
    PluginSettings(plugin_key, defaults, get_preprocessors, set_preprocessors)

NoFacade == PluginSettings("", NotGiven, Given({}), Given({}))
Returned(kind, facade) == [kind |-> kind, facade |-> facade]

\* variant: the set preprocessors are used for reading as well
plugin_settings_for_settings_plugin_set_only(plugin_key, instance) ==
    IF ~instance.settings_plugin THEN Returned("None", NoFacade)
    ELSE IF instance.behaviour = "Exception" THEN Returned("None", NoFacade)
    ELSE IF instance.behaviour = "BaseException" THEN Returned("raised", NoFacade)
    ELSE Returned("PluginSettings",
                  plugin_settings(plugin_key, NotGiven, Given(instance.set),
                                  Given(instance.set)))

\* not a SettingsPlugin: None; "except Exception": logged, None; else the facade
plugin_settings_for_settings_plugin(plugin_key, instance) ==
    IF ~instance.settings_plugin THEN Returned("None", NoFacade)
    ELSE IF instance.behaviour = "Exception" THEN Returned("None", NoFacade)
    ELSE IF instance.behaviour = "BaseException" THEN Returned("raised", NoFacade)
    ELSE Returned("PluginSettings",
                  plugin_settings(plugin_key, NotGiven, Given(instance.get),
                                  Given(instance.set)))

NoFactoryCall ==
    [op |-> "none", key |-> "",
     instance |-> [settings_plugin |-> FALSE, behaviour |-> "return", get |-> {}, set |-> {}],
     result |-> Returned("None", NoFacade)]

FactoryCall(key, instance) ==
    /\ factory' = [op |-> "plugin_settings_for_settings_plugin", key |-> key,
                   instance |-> instance,
                   result |-> plugin_settings_for_settings_plugin(key, instance)]
    /\ UNCHANGED <<_instance, constructed, managers, last, dispatch, store, scall, overlays,
                   loader, threads, job>>

(***************************************************************************)
(* Concurrent host threads.  The module takes no lock, so a thread can be  *)
(* preempted between any two statements; a thread's record holds where it  *)
(* stands in its call and the call's local variables.                      *)
(***************************************************************************)
Threads == {"t1", "t2"}
IdleThread ==
    [pc |-> "idle", op |-> "none", args |-> NoArgs, made |-> None, outcome |-> "none",
     value |-> None, kw |-> NoKwargs, call |-> NoStoreCall, stored |-> NoValue]
NoThreads == [t \in Threads |-> IdleThread]

\* plugin_manager(init=True) of thread t: "if _instance is not None: if init: raise"
InitCheck(t, args) ==
    /\ threads[t].pc = "idle"
    /\ threads' =
          [threads EXCEPT ![t] =
             IF plugin_manager_branch(_instance, TRUE) = "raise_already"
             THEN [@ EXCEPT !.op = "plugin_manager", !.args = args, !.pc = "raised",
                            !.outcome = AlreadyInitialized]
             ELSE [@ EXCEPT !.op = "plugin_manager", !.args = args,
                            !.pc = "constructing"]]
    /\ UNCHANGED <<_instance, constructed, managers, last, dispatch, store, scall, overlays, loader, factory, job>>
\* the right-hand side of "_instance = PluginManager(...)": the constructor runs
InitConstruct(t) ==
    /\ threads[t].pc = "constructing"
    /\ \/ /\ constructed' = constructed + 1
          /\ managers' = Append(managers, PluginManager(threads[t].args))
          /\ threads' = [threads EXCEPT ![t].made = constructed + 1,
                                        ![t].pc = "assigning"]
       \/ /\ threads' = [threads EXCEPT ![t].outcome = ConstructorError,
                                        ![t].pc = "raised"]
          /\ UNCHANGED <<constructed, managers>>
    /\ UNCHANGED <<_instance, last, dispatch, store, scall, overlays, loader, factory, job>>
\* the assignment to the global _instance
InitAssign(t) ==
    /\ threads[t].pc = "assigning"
    /\ _instance' = threads[t].made
    /\ threads' = [threads EXCEPT ![t].pc = "returning"]
    /\ UNCHANGED <<constructed, managers, last, dispatch, store, scall, overlays, loader, factory, job>>
\* return _instance
InitReturn(t) ==
    /\ threads[t].pc = "returning"
    /\ threads' = [threads EXCEPT ![t].pc = "returned", ![t].outcome = "return",
                                  ![t].value = _instance]
    /\ UNCHANGED <<_instance, constructed, managers, last, dispatch, store, scall, overlays, loader, factory, job>>

(***************************************************************************)
(* JobData (octoprint.schema.printer).  An object is its class and its     *)
(* five fields; NoValue stands for None, 0 for a value that is not None    *)
(* but falsy (0.0, "", an empty FileInfo has no such reading and is just   *)
(* another value).  The receiver's fields hold None or 2, the argument's   *)
(* None, 0 or 1, so that a field shows whose value it holds.               *)
(***************************************************************************)
JobFields == {"file", "estimatedPrintTime", "lastPrintTime", "filament", "user"}
Object(class, fields) == [class |-> class, fields |-> fields]
NoFields == [f \in JobFields |-> NoValue]
ReceiverValues == {NoValue, 2}
ArgumentValues == {NoValue, 0, 1}
Receivers == {Object("JobData", fields) : fields \in [JobFields -> ReceiverValues]}
\* the argument: a JobData, an object of another class with the same
\* attributes, or None
Arguments ==
    {Object(class, fields) : class \in {"JobData", "JobProgress"},
                             fields \in [JobFields -> ArgumentValues]}
    \cup {Object("NoneType", NoFields)}

\* variant: a field is taken when the argument's value is truthy
JobData_update_truthy(self, other) ==
    IF other.class # "JobData" THEN self
    ELSE [self EXCEPT !.fields = [f \in JobFields |->
                                    IF other.fields[f] \notin {NoValue, 0}
                                    THEN other.fields[f] ELSE self.fields[f]]]

\* JobData.update: the receiver after self.update(other)
JobData_update(self, other) ==
    IF other.class # "JobData" THEN self
    ELSE [self EXCEPT !.fields = [f \in JobFields |->
                                    IF other.fields[f] # NoValue
                                    THEN other.fields[f] ELSE self.fields[f]]]

\* self and other as they are now and as they were made, whether other is
\* the receiver itself, how often update has run, and self after the first run
NoJob ==
    [self |-> Object("JobData", NoFields), other |-> Object("NoneType", NoFields),
     aliased |-> FALSE, made |-> <<>>, applied |-> 0,
     once |-> Object("JobData", NoFields)]

\* the host makes a receiver and an argument, or passes the receiver itself
JobMake(self, other, aliased) ==
    /\ job.made = <<>>
    /\ job' = [NoJob EXCEPT !.self = self, !.other = IF aliased THEN self ELSE other,
                            !.aliased = aliased,
                            !.made = <<self, IF aliased THEN self ELSE other>>]
    /\ UNCHANGED <<_instance, constructed, managers, last, dispatch, store, scall, overlays, loader, factory, threads>>
\* self.update(other); the assignments go to self, which other is when aliased
JobUpdate ==
    LET after == JobData_update(job.self, job.other) IN
    /\ job.made # <<>>
    /\ job.applied < 2
    /\ job' = [job EXCEPT !.self = after,
                          !.other = IF job.aliased THEN after ELSE @,
                          !.applied = @ + 1,
                          !.once = IF job.applied = 0 THEN after ELSE @]
    /\ UNCHANGED <<_instance, constructed, managers, last, dispatch, store, scall, overlays, loader, factory, threads>>

Init ==
    /\ _instance = None
    /\ constructed = 0
    /\ managers = <<>>
    /\ last = NoCall
    /\ dispatch = Idle
    /\ store = {}
    /\ scall = NoFacadeCall
    /\ overlays = NoOverlays
    /\ loader = NoLoader
    /\ factory = NoFactoryCall
    /\ threads = NoThreads
    /\ job = NoJob

PluginManagerCall == \E init \in BOOLEAN, args \in ManagerArgs : plugin_manager(init, args)
CallPlugin ==
    \E targ \in TypeArgs, cb \in BOOLEAN, ecb \in BOOLEAN,
       ctx \in Contexts \cup {NoContext}, mgr \in ManagerArgValues :
         call_plugin(targ, Omitted, cb, ecb, ctx, mgr)
EnablePlugin == \E p \in Toggled : Enable(p)
DisablePlugin == \E p \in Toggled : Disable(p)

Next ==
    \/ PluginManagerCall
    \/ CallPlugin
    \/ call_plugin_iteration
    \/ EnablePlugin
    \/ DisablePlugin

Spec == Init /\ [][Next]_vars

(***************************************************************************)
(* ArgumentsSpec: dispatches that pass arguments on to the plugins' method, *)
(* on the singleton built from the default arguments or on a manager of    *)
(* the caller's own.                                                       *)
(***************************************************************************)
DefaultInit == plugin_manager(TRUE, NoArgs)
CallPluginWithArguments ==
    \E targ \in TypeArgs, passed \in ArgumentChoices, cb \in BOOLEAN, ecb \in BOOLEAN,
       mgr \in ManagerArgValues :
         call_plugin(targ, passed, cb, ecb, NoContext, mgr)
ArgumentsNext ==
    \/ DefaultInit
    \/ CallPluginWithArguments
    \/ call_plugin_iteration
ArgumentsSpec == Init /\ [][ArgumentsNext]_vars

ScopedAccess ==
    \E op \in ScopedReaders \cup {"remove"}, key \in PluginKeys, path \in RelativePaths,
       kwargs \in KwargsChoices : FacadeCall(op, key, path, NoValue, kwargs)
ScopedSet ==
    \E op \in ScopedSetters, key \in PluginKeys, path \in RelativePaths,
       value \in Values, kwargs \in KwargsChoices : FacadeCall(op, key, path, value, kwargs)
GlobalAccess ==
    \E op \in GlobalReaders \cup {"global_remove"}, key \in PluginKeys, path \in GlobalPaths,
       kwargs \in KwargsChoices : FacadeCall(op, key, path, NoValue, kwargs)
GlobalSet ==
    \E op \in GlobalSetters, key \in PluginKeys, path \in GlobalPaths,
       value \in Values, kwargs \in KwargsChoices : FacadeCall(op, key, path, value, kwargs)

SettingsNext ==
    \/ ScopedAccess
    \/ ScopedSet
    \/ GlobalAccess
    \/ GlobalSet

SettingsSpec == Init /\ [][SettingsNext]_vars

(***************************************************************************)
(* The typed accessors of plugin "foo" on its setting ["n"]: numeric       *)
(* writes with any min and max, raw writes of a number or of a text, and   *)
(* typed reads with or without a fallback.                                 *)
(***************************************************************************)
Numbers == 0..MaxNumber
Limits == {NoValue} \cup Numbers
TypedPath == ListPath(<<"n">>)
TypedKwargs(lo, hi, fb) == [NoKwargs EXCEPT !.min = lo, !.max = hi, !.fallback = fb]

SetNumber ==
    \E op \in {"set_int", "set_float"}, value \in Numbers, lo \in Limits, hi \in Limits :
        FacadeCall(op, "foo", TypedPath, value, TypedKwargs(lo, hi, NoValue))
SetRaw == \E value \in Numbers \cup {Text} : FacadeCall("set", "foo", TypedPath, value, NoKwargs)
GetTyped ==
    \E op \in {"get_int", "get_float", "get_boolean"}, fb \in Limits :
        FacadeCall(op, "foo", TypedPath, NoValue, TypedKwargs(NoValue, NoValue, fb))

TypedNext ==
    \/ SetNumber
    \/ SetRaw
    \/ GetTyped

TypedSpec == Init /\ [][TypedNext]_vars

(***************************************************************************)
(* Overlays of plugin "qux" on its settings ["x"] and ["y"].  The plugin   *)
(* adds overlays through its facade and removes them by key, the host      *)
(* registers an overlay with the store directly, and ["x"] is read,        *)
(* written and removed.  The store's contract takes a dict: what it does   *)
(* with another object is open, so it either registers the object, which   *)
(* then supplies no value, or rejects the call.                            *)
(***************************************************************************)
OverlayDicts == {<<>>, <<<<"x", 1>>>>, <<<<"x", 2>>, <<"y", 1>>>>}
OverlayPath == ListPath(<<"x">>)

AddOverlayCall(key, overlay, accepted) ==
    LET obj == add_overlay(Facade(key), overlay)
        asked == [NoFacadeCall EXCEPT !.op = "add_overlay", !.key = key, !.dict = overlay]
    IN
    /\ overlays.issued < MaxOverlays
    /\ IF obj.kind = "IndexError"
       THEN /\ scall' = [asked EXCEPT !.outcome = "IndexError"]
            /\ overlays' = overlays
       ELSE IF obj.kind # "dict" /\ ~accepted
       THEN /\ scall' = [asked EXCEPT !.outcome = "rejected"]
            /\ overlays' = overlays
       ELSE /\ scall' = [asked EXCEPT !.outcome = "ok", !.result = overlays.issued + 1]
            /\ overlays' = [StoreAddOverlay(overlays, obj) EXCEPT !.passed = Append(@, overlay)]
    /\ UNCHANGED <<_instance, constructed, managers, last, dispatch, store, loader, factory, threads, job>>

RemoveOverlayCall(key, k) ==
    /\ scall' = [NoFacadeCall EXCEPT !.op = "remove_overlay", !.key = key, !.value = k,
                                     !.outcome = "ok"]
    /\ overlays' = StoreRemoveOverlay(overlays, remove_overlay(Facade(key), k))
    /\ UNCHANGED <<_instance, constructed, managers, last, dispatch, store, loader, factory, threads, job>>

\* the host registers {"plugins": {key: overlay}} with the store itself
HostAddOverlayCall(key, overlay) ==
    /\ overlays.issued < MaxOverlays
    /\ scall' = [NoFacadeCall EXCEPT !.op = "host_add_overlay", !.key = key,
                                     !.dict = overlay, !.outcome = "ok",
                                     !.result = overlays.issued + 1]
    /\ overlays' = [StoreAddOverlay(overlays, DictObject(Nested(key, DictMap(overlay))))
                      EXCEPT !.passed = Append(@, overlay)]
    /\ UNCHANGED <<_instance, constructed, managers, last, dispatch, store, loader, factory, threads, job>>

AddOverlay == \E overlay \in OverlayDicts, accepted \in BOOLEAN : AddOverlayCall("qux", overlay, accepted)
RemoveOverlay == \E k \in 1..MaxOverlays : RemoveOverlayCall("qux", k)
HostAddOverlay == \E overlay \in OverlayDicts \ {<<>>} : HostAddOverlayCall("qux", overlay)
OverlayGet ==
    \E merged \in {NoValue, 1} :
        FacadeCall("get", "qux", OverlayPath, NoValue, [NoKwargs EXCEPT !.merged = merged])
OverlaySet == \E value \in Numbers : FacadeCall("set", "qux", OverlayPath, value, NoKwargs)
OverlayUnset == FacadeCall("remove", "qux", OverlayPath, NoValue, NoKwargs)

OverlayNext ==
    \/ AddOverlay
    \/ RemoveOverlay
    \/ HostAddOverlay
    \/ OverlayGet
    \/ OverlaySet
    \/ OverlayUnset

OverlaySpec == Init /\ [][OverlayNext]_vars

(***************************************************************************)
(* The whole data of plugins "qux" and "baz": their leaves are written     *)
(* one by one, read with merged semantics, exported with get_all_data and  *)
(* removed with clean_all_data, next to a value of the host outside of     *)
(* ["plugins"]; set_all_data is tried as well.                             *)
(***************************************************************************)
BulkKeys == {"qux", "baz"}
Leaves(key) == IF key = "qux" THEN {ListPath(<<"x">>), ListPath(<<"y">>)} ELSE {ListPath(<<"bar">>)}
BulkKwargs ==
    {NoKwargs,
     [NoKwargs EXCEPT !.merged = 0],
     [NoKwargs EXCEPT !.defaults = Given({<<<<"plugins", "qux", "y">>, 1>>})],
     [NoKwargs EXCEPT !.preprocessors = Given(CallerPreprocessors)]}
DataTrees == {<<>>, <<<<"x", 1>>>>, <<<<"bar", 0>>>>}

SetAllDataCall(key, data) ==
    /\ scall' = [NoFacadeCall EXCEPT
                   !.op = "set_all_data", !.key = key, !.dict = data,
                   !.outcome = IF __getattr__(Facade(key), "set_all_data") = "AttributeError"
                               THEN "AttributeError" ELSE "ok"]
    /\ UNCHANGED <<_instance, constructed, managers, last, dispatch, store, overlays, loader, factory, threads, job>>

LeafSet ==
    \E key \in BulkKeys, value \in Values :
        \E path \in Leaves(key) : FacadeCall("set", key, path, value, NoKwargs)
MergedGet ==
    \E key \in BulkKeys :
        \E path \in Leaves(key) \cup {ListPath(<<>>)} :
            FacadeCall("get", key, path, NoValue, [NoKwargs EXCEPT !.merged = 1])
GetAllData ==
    \E key \in BulkKeys, kwargs \in BulkKwargs :
        FacadeCall("get_all_data", key, NonePath, NoValue, kwargs)
CleanAllData == \E key \in BulkKeys : FacadeCall("clean_all_data", key, NonePath, NoValue, NoKwargs)
SetAllData == \E key \in BulkKeys, data \in DataTrees : SetAllDataCall(key, data)
HostSet ==
    \E value \in Values :
        FacadeCall("global_set", "qux", ListPath(<<"server", "port">>), value, NoKwargs)

BulkNext ==
    \/ LeafSet
    \/ MergedGet
    \/ GetAllData
    \/ CleanAllData
    \/ SetAllData
    \/ HostSet

BulkSpec == Init /\ [][BulkNext]_vars

Initialize == \E args \in LoaderArgs : LoaderStart(args)
Discovered == \E c \in Candidates : Discover(c)

LoaderNext ==
    \/ Initialize
    \/ Discovered

LoaderSpec == Init /\ [][LoaderNext]_vars

SettingsFor ==
    \E key \in PluginKeys \cup {"qux"}, instance \in Instances : FactoryCall(key, instance)

FactoryNext ==
    \/ SettingsFor

FactorySpec == Init /\ [][FactoryNext]_vars

(***************************************************************************)
(* ViewSpec: the setting ["bar"] of a plugin is written and removed through *)
(* the facade the plugin was given, through a second facade made for the   *)
(* same plugin_key, and by settings.set on the store itself, and read      *)
(* through either facade.                                                  *)
(***************************************************************************)
ViewPath == ListPath(<<"bar">>)
ViewFacades == {"facade", "second"}
\* the second facade is made without the plugin's defaults and preprocessors
ViewFacade(via, key) ==
    IF via = "second" THEN plugin_settings(key, NotGiven, Given({}), Given({}))
    ELSE Facade(key)
Prior == [op |-> scall.op, via |-> scall.via]

ViewWrite ==
    \E via \in ViewFacades, op \in ScopedSetters, key \in PluginKeys, value \in Values :
        FacadeCallOn(ViewFacade(via, key), via, Prior, op, ViewPath, value, NoKwargs)
ViewRemove ==
    \E via \in ViewFacades, key \in PluginKeys :
        FacadeCallOn(ViewFacade(via, key), via, Prior, "remove", ViewPath, NoValue, NoKwargs)
ViewStoreSet ==
    \E key \in PluginKeys, value \in Values :
        StoreSet(Prior, key, ListPath(<<"plugins", key>> \o ViewPath.items), value)
ViewRead ==
    \E via \in ViewFacades, op \in ScopedReaders, key \in PluginKeys :
        FacadeCallOn(ViewFacade(via, key), via, Prior, op, ViewPath, NoValue, NoKwargs)

ViewNext ==
    \/ ViewWrite
    \/ ViewRemove
    \/ ViewStoreSet
    \/ ViewRead

ViewSpec == Init /\ [][ViewNext]_vars

(***************************************************************************)
(* MutationSpec: one thread initialises the singleton and dispatches on    *)
(* it; another thread enables and disables plugins at any time.            *)
(***************************************************************************)
ManagerInit == \E args \in ManagerArgs : plugin_manager(TRUE, args)
CallPluginOnSingleton ==
    \E targ \in TypeArgs, cb \in BOOLEAN, ecb \in BOOLEAN :
        call_plugin(targ, Omitted, cb, ecb, NoContext, "None")
OtherThreadEnables == \E p \in Toggled : ConcurrentEnable(p)
OtherThreadDisables == \E p \in Toggled : ConcurrentDisable(p)

MutationNext ==
    \/ ManagerInit
    \/ CallPluginOnSingleton
    \/ call_plugin_iteration
    \/ OtherThreadEnables
    \/ OtherThreadDisables

MutationSpec == Init /\ [][MutationNext]_vars

(***************************************************************************)
(* SnapshotSpec: dispatches on the default singleton in sorting context    *)
(* "x"; between any two iterations of the loop (in a plugin's method, in a *)
(* callback, in another thread) a plugin is enabled, disabled or re-ranked. *)
(***************************************************************************)
CallPluginInContext ==
    \E targ \in TypeArgs, cb \in BOOLEAN : call_plugin(targ, Omitted, cb, TRUE, "x", "None")
RerankDuringDispatch == \E order \in SortingOrders : ConcurrentRerank(order)

SnapshotNext ==
    \/ DefaultInit
    \/ CallPluginInContext
    \/ call_plugin_iteration
    \/ OtherThreadEnables
    \/ OtherThreadDisables
    \/ RerankDuringDispatch

SnapshotSpec == Init /\ [][SnapshotNext]_vars

(***************************************************************************)
(* RaceSpec: every thread calls plugin_manager(init=True) once.            *)
(***************************************************************************)
ThreadInitCheck == \E t \in Threads, args \in ManagerArgs : InitCheck(t, args)
ThreadInitConstruct == \E t \in Threads : InitConstruct(t)
ThreadInitAssign == \E t \in Threads : InitAssign(t)
ThreadInitReturn == \E t \in Threads : InitReturn(t)

RaceNext ==
    \/ ThreadInitCheck
    \/ ThreadInitConstruct
    \/ ThreadInitAssign
    \/ ThreadInitReturn

RaceSpec == Init /\ [][RaceNext]_vars

(***************************************************************************)
(* WriteRaceSpec: every thread writes the setting ["n"] of plugin "foo"    *)
(* once, with set or with a numeric setter and any min and max.  A setter  *)
(* of the facade evaluates its arguments (the scoped path, the keyword     *)
(* arguments) on the thread's own data and then makes one call of the      *)
(* store; conversion, clamping and the write happen inside that call,      *)
(* which the store runs under its own lock.                                *)
(***************************************************************************)
\* self._prefix_path(path), self._add_setter_kwargs(kwargs): the call is ready
WritePrepare(t, op, value, kwargs) ==
    /\ threads[t].pc = "idle"
    /\ threads' = [threads EXCEPT ![t] =
                     [@ EXCEPT !.pc = "prepared", !.op = op, !.value = value,
                               !.kw = kwargs,
                               !.call = method_call(op, Facade("foo"), TypedPath, value,
                                                    kwargs)]]
    /\ UNCHANGED <<_instance, constructed, managers, last, dispatch, store, scall, overlays, loader, factory, job>>
\* self.settings.<setter>(...): made counts the store calls up to this one,
\* stored is what the store holds at the call's path when the call returns
WriteStore(t) ==
    LET call == threads[t].call
        after == StoreEffect(store, call)
    IN
    /\ threads[t].pc = "prepared"
    /\ store' = after
    /\ threads' = [threads EXCEPT ![t] =
                     [@ EXCEPT !.pc = "done",
                               !.made = 1 + Cardinality({u \in Threads :
                                                           threads[u].pc = "done"}),
                               !.stored = IF HasKey(after, call.path.items)
                                          THEN Lookup(after, call.path.items)
                                          ELSE NoValue]]
    /\ UNCHANGED <<_instance, constructed, managers, last, dispatch, scall, overlays, loader, factory, job>>

ThreadPrepares ==
    \E t \in Threads, op \in {"set", "set_int", "set_float"}, value \in Numbers,
       lo \in Limits, hi \in Limits :
        WritePrepare(t, op, value, TypedKwargs(lo, hi, NoValue))
ThreadStores == \E t \in Threads : WriteStore(t)

WriteRaceNext ==
    \/ ThreadPrepares
    \/ ThreadStores

WriteRaceSpec == Init /\ [][WriteRaceNext]_vars

(***************************************************************************)
(* JobSpec: a receiver and an argument are made, then update runs twice.   *)
(***************************************************************************)
MakeJob ==
    /\ job.made = <<>>
    /\ \E self \in Receivers, other \in Arguments, aliased \in BOOLEAN :
          JobMake(self, other, aliased)

JobNext ==
    \/ MakeJob
    \/ JobUpdate

JobSpec == Init /\ [][JobNext]_vars

(***************************************************************************)
(* IsolationSpec: plugins "foo" and "baz" write and remove their settings  *)
(* with the scoped methods and clean_all_data, while values of the host    *)
(* and of the other plugin are written and removed with the global methods. *)
(***************************************************************************)
IsolationPaths == {ListPath(<<"bar">>), ListPath(<<"plugins", "baz", "bar">>), ListPath(<<>>)}
OutsidePaths == {ListPath(<<"server", "port">>), ListPath(<<"plugins", "baz", "bar">>)}

IsolatedSet ==
    \E op \in ScopedSetters, key \in PluginKeys, path \in IsolationPaths \ {ListPath(<<>>)},
       value \in Values : FacadeCall(op, key, path, value, NoKwargs)
IsolatedRemove ==
    \E key \in PluginKeys, path \in IsolationPaths :
        FacadeCall("remove", key, path, NoValue, NoKwargs)
IsolatedClean ==
    \E key \in PluginKeys : FacadeCall("clean_all_data", key, NonePath, NoValue, NoKwargs)
OutsideSet ==
    \E op \in GlobalSetters, key \in PluginKeys, path \in OutsidePaths, value \in Values :
        FacadeCall(op, key, path, value, NoKwargs)
OutsideRemove ==
    \E key \in PluginKeys, path \in OutsidePaths :
        FacadeCall("global_remove", key, path, NoValue, NoKwargs)

IsolationNext ==
    \/ IsolatedSet
    \/ IsolatedRemove
    \/ IsolatedClean
    \/ OutsideSet
    \/ OutsideRemove

IsolationSpec == Init /\ [][IsolationNext]_vars

(***************************************************************************)
(* Reading the record of a dispatch.                                       *)
(***************************************************************************)
Log == dispatch.log
Calls == SelectSeq(Log, LAMBDA e : e.ev = "call")
Invoked == [i \in 1..Len(Calls) |-> Calls[i].inst]
\* the plugins of the queried list that carry _identifier and the method
Expected == SelectSeq(dispatch.plugins, LAMBDA p : HasIdentifier(p) /\ HasMethod(p))
Count(ev, p) == Cardinality({i \in 1..Len(Log) : Log[i].ev = ev /\ Log[i].inst = p})
Happened(ev, p, out) ==
    \E i \in 1..Len(Log) : Log[i].ev = ev /\ Log[i].inst = p /\ Log[i].out = out
\* the dispatch got past its manager lookup
Dispatched == dispatch.pc # "idle" /\ dispatch.error[1] # NotInitialized
\* the event that ends a dispatch early: a BaseException, or a raising error_callback
Aborts(e) ==
    \/ e.ev \in {"call", "callback"} /\ e.out = "BaseException"
    \/ e.ev = "error_callback" /\ e.out = "raise"
\* after event i the loop went on to the next plugin
WentOn(i) == i = Len(Log) => dispatch.pc \in {"running", "done"}
Position(s, p) == CHOOSE i \in 1..Len(s) : s[i] = p
QueryTypes == {normalize_types(t) : t \in TypeArgs}

(***************************************************************************)
(* C1  Init guard: once a plugin_manager(init=True) call has succeeded,    *)
(* every later plugin_manager(init=True, ...) call raises the "already     *)
(* initialized" ValueError, constructs no PluginManager and leaves the     *)
(* stored singleton as it was.                                             *)
(***************************************************************************)
InitGuard ==
    (last.op = "plugin_manager" /\ last.init /\ last.before # None) =>
        /\ last.outcome = AlreadyInitialized
        /\ last.made = 0
        /\ _instance = last.before
        /\ Len(managers) = constructed

InitGuardWitness ==
    /\ last.op = "plugin_manager" /\ last.init /\ last.before # None
    /\ last.outcome = AlreadyInitialized

(***************************************************************************)
(* C2  Use before init: while no init call has succeeded,                  *)
(* plugin_manager(init=False) raises the "not initialized yet" ValueError  *)
(* and creates no instance, and call_plugin without a manager of its own   *)
(* raises that error before any method or callback is called.              *)
(***************************************************************************)
UseBeforeInit ==
    /\ (last.op = "plugin_manager" /\ ~last.init /\ last.before = None) =>
          /\ last.outcome = NotInitialized
          /\ last.made = 0
          /\ _instance = None
    /\ _instance = None =>
          /\ constructed = 0 /\ managers = <<>>
          /\ (dispatch.pc # "idle" /\ dispatch.mgr = "None") =>
                /\ dispatch.pc = "raised"
                /\ dispatch.error = <<NotInitialized, 0>>
                /\ dispatch.log = <<>> /\ dispatch.plugins = <<>>

UseBeforeInitWitness ==
    /\ _instance = None
    /\ dispatch.pc = "raised" /\ dispatch.mgr = "None"
    /\ dispatch.error = <<NotInitialized, 0>>

(***************************************************************************)
(* C3  Singleton identity: plugin_manager constructs at most one           *)
(* PluginManager, and after the first successful init every                *)
(* plugin_manager(init=False, ...) call returns that instance, whatever    *)
(* its other arguments, and changes nothing of the registry.               *)
(***************************************************************************)
SingletonState ==
    /\ constructed <= 1 /\ Len(managers) = constructed
    /\ _instance \in {None, 1} /\ (_instance = None <=> constructed = 0)
    /\ (last.op = "plugin_manager" /\ ~last.init /\ last.before # None) =>
          /\ last.outcome = "return"
          /\ last.value = last.before /\ last.value = _instance
          /\ last.made = 0
NonInitCallStep ==
    (last'.op = "plugin_manager" /\ ~last'.init) =>
        UNCHANGED <<_instance, constructed, managers>>
SingletonIdentity == []SingletonState /\ [][NonInitCallStep]_vars

SingletonIdentityWitness ==
    /\ last.op = "plugin_manager" /\ ~last.init /\ last.outcome = "return"
    /\ last.value = 1 /\ managers[1].sorting_order # {}

CallbackFailurePropagates ==
    \A i \in 1..Len(Log) :
        (Log[i].ev = "callback" /\ Log[i].out # "return") =>
            /\ i = Len(Log)
            /\ dispatch.pc = "raised"
            /\ dispatch.error = <<"callback_error", Log[i].inst>>

(***************************************************************************)
(* C6  Silent skip: an instance of the queried list without _identifier,   *)
(* or without the method, is never invoked, reaches neither callback, is   *)
(* never where the dispatch ends in an error, and the instances after it   *)
(* are still dispatched.                                                   *)
(***************************************************************************)
SilentSkip ==
    Dispatched =>
        \A i \in 1..Len(dispatch.plugins) :
            LET p == dispatch.plugins[i] IN
            (~HasIdentifier(p) \/ ~HasMethod(p)) =>
                /\ \A j \in 1..Len(Log) : Log[j].inst # p
                /\ dispatch.pc = "raised" => dispatch.idx # i
                /\ dispatch.pc = "done" =>
                      \A k \in (i + 1)..Len(dispatch.plugins) :
                          LET q == dispatch.plugins[k] IN
                          (HasIdentifier(q) /\ HasMethod(q)) => Count("call", q) = 1

SilentSkipWitness ==
    /\ dispatch.pc = "done"
    /\ \E i, j, k \in 1..Len(dispatch.plugins) :
          /\ i < k /\ j < k
          /\ ~HasIdentifier(dispatch.plugins[i])
          /\ ~HasMethod(dispatch.plugins[j])
          /\ Count("call", dispatch.plugins[k]) = 1

(***************************************************************************)
(* C7  Ordering.  The rule: get_implementations returns the qualifying     *)
(* plugins in ascending rank, the rank being the discovery position        *)
(* unless the sorting order has an entry for the identifier and the        *)
(* query's context, ties broken by identifier.  The dispatch: call_plugin  *)
(* invokes in the order of get_implementations for its sorting_context.    *)
(***************************************************************************)
OrderingRule ==
    _instance # None =>
        \A types \in QueryTypes, ctx \in Contexts \cup {NoContext} :
            LET reg == managers[_instance]
                r == get_implementations(reg, types, ctx)
                rank(p) == IF \E e \in reg.sorting_order : e[1] = p /\ e[2] = ctx
                           THEN (CHOOSE e \in reg.sorting_order :
                                    e[1] = p /\ e[2] = ctx)[3]
                           ELSE DefaultRank(p)
            IN \A i, j \in 1..Len(r) :
                  i < j => \/ rank(r[i]) < rank(r[j])
                           \/ rank(r[i]) = rank(r[j]) /\ r[i] < r[j]
DispatchOrder ==
    Dispatched =>
        IsPrefix(Invoked,
                 SelectSeq(get_implementations(dispatch.reg, dispatch.types, dispatch.ctx),
                           LAMBDA p : HasIdentifier(p) /\ HasMethod(p)))

\* the registry of the example: A = 1 (default rank 0), B = 2 (default rank 1),
\* both enabled, and B ranked r in context "x"
ExampleRegistry(r) ==
    /\ _instance # None
    /\ <<2, "x", r>> \in managers[_instance].sorting_order
    /\ managers[_instance].state[1] = "enabled"
    /\ managers[_instance].state[2] = "enabled"
BBeforeA(ctx) ==
    LET r == get_implementations(managers[_instance], <<"T1">>, ctx)
    IN Position(r, 2) < Position(r, 1)

Qualification ==
    /\ Dispatched =>
          /\ \A p \in Range(dispatch.plugins) :
                /\ dispatch.reg.state[p] = "enabled"
                /\ \A t \in Range(dispatch.types) : t \in Tags(p)
          /\ \A j \in 1..Len(Log) : Log[j].inst \in Range(dispatch.plugins)
          /\ dispatch.mgr = "None" => dispatch.reg = managers[_instance]
    /\ _instance # None =>
          /\ DOMAIN managers[_instance].state = Plugins
          /\ \A types \in QueryTypes, ctx \in Contexts \cup {NoContext} :
                Range(get_implementations(managers[_instance], types, ctx)) =
                    {p \in Plugins : /\ managers[_instance].state[p] = "enabled"
                                     /\ \A t \in Range(types) : t \in Tags(p)}

QualificationWitness ==
    /\ dispatch.pc = "done" /\ dispatch.mgr = "None"
    /\ managers[_instance].state[3] = "disabled"
    /\ managers[_instance].state[2] = "enabled"
    /\ dispatch.types = <<"T1">>
    /\ Count("call", 3) = 0 /\ Count("call", 2) = 1

(***************************************************************************)
(* Reading the record of a facade call.                                    *)
(***************************************************************************)
\* the store method a facade method stands for
Delegate(op) ==
    CASE op \in {"has", "global_has"} -> "has"
      [] op \in {"get", "global_get"} -> "get"
      [] op \in {"get_int", "global_get_int"} -> "getInt"
      [] op \in {"get_float", "global_get_float"} -> "getFloat"
      [] op \in {"get_boolean", "global_get_boolean"} -> "getBoolean"
      [] op \in {"set", "global_set"} -> "set"
      [] op \in {"set_int", "global_set_int"} -> "setInt"
      [] op \in {"set_float", "global_set_float"} -> "setFloat"
      [] op \in {"set_boolean", "global_set_boolean"} -> "setBoolean"
      [] op \in {"remove", "global_remove"} -> "remove"
\* a read of the store itself, with no keyword arguments
RawRead(st, items) == StoreResult(st, StoreCall("get", ListPath(items), NoValue, NoKwargs))
\* the same call made on the store by the caller itself
Direct(c) == StoreCall(Delegate(c.op), c.path, c.value, c.kw)

(***************************************************************************)
(* C9  Settings scoping: called with a list path P, each scoped method of  *)
(* the facade of plugin k makes the corresponding store call with the      *)
(* path ["plugins", k] + P and the caller's value; and after set(P, v)     *)
(* through a facade without a set preprocessor for P, a raw read of        *)
(* ["plugins", k] + P in the store returns v.                              *)
(***************************************************************************)
SettingsScoping ==
    (scall.op \in ScopedOps /\ scall.path.kind = "list") =>
        /\ scall.outcome = "ok"
        /\ scall.sent.method = Delegate(scall.op)
        /\ scall.sent.path = ListPath(<<"plugins", scall.key>> \o scall.path.items)
        /\ scall.sent.value = scall.value
        /\ (scall.op = "set" /\ scall.key = "foo" /\ ~scall.kw.preprocessors.given) =>
              RawRead(store, <<"plugins", scall.key>> \o scall.path.items) = scall.value

SettingsScopingWitness ==
    /\ scall.op = "set" /\ scall.key = "foo" /\ scall.path = ListPath(<<"bar">>)
    /\ scall.value = 1 /\ scall.kw = NoKwargs
    /\ RawRead(store, <<"plugins", "foo", "bar">>) = 1
    /\ RawRead(store, <<"plugins", "baz", "bar">>) # 1

(***************************************************************************)
(* C10  Global bypass: each global_* method makes the corresponding store  *)
(* call with exactly the caller's path, value and keyword arguments, none  *)
(* of the plugin's defaults or preprocessors added; what it returns and    *)
(* what it does to the store are what the same call made directly on the   *)
(* store returns and does.                                                 *)
(***************************************************************************)
GlobalSent ==
    scall.op \in GlobalOps => scall.outcome = "ok" /\ scall.sent = Direct(scall)
GlobalStep ==
    scall'.op \in GlobalOps =>
        /\ scall'.result = StoreResult(store, Direct(scall'))
        /\ store' = StoreEffect(store, Direct(scall'))
GlobalBypass == []GlobalSent /\ [][GlobalStep]_vars

GlobalBypassWitness ==
    /\ scall.op = "global_get" /\ scall.key = "baz"
    /\ scall.path = ListPath(<<"plugins", "baz", "bar">>) /\ scall.kw = NoKwargs
    /\ HasKey(store, <<"plugins", "baz", "bar">>)
    /\ scall.result = 0

\* the scoped methods that read a value
ScopedGetters == {"get", "get_int", "get_float", "get_boolean"}
\* the plugin's own preprocessors for the kind of call on record
OwnPreprocessors ==
    IF scall.op \in ScopedGetters THEN Facade(scall.key).get_preprocessors
    ELSE Facade(scall.key).set_preprocessors
\* the path the call on record is scoped to
ScopedItems == <<"plugins", scall.key>> \o scall.path.items
\* what the call on record returned (a getter) or left stored (a setter), given
\* the preprocessors mapping that was in force
Outcome(used) ==
    LET m == Delegate(scall.op)
        f(v) == IF HasKey(used, ScopedItems) THEN Transform(Lookup(used, ScopedItems), v)
                ELSE v
    IN IF scall.op \in ScopedGetters
       THEN scall.result = Convert(m, f(ValueAt(store, scall.sent, ScopedItems)))
       ELSE /\ HasKey(store, ScopedItems)
            /\ Lookup(store, ScopedItems) = f(Convert(m, scall.value))

(***************************************************************************)
(* C11  Preprocessors, as claimed: whatever keyword arguments the caller   *)
(* passes, every scoped get and every scoped set applies the plugin's own  *)
(* get / set preprocessor for the accessed path, when there is one, to     *)
(* the value read / to the value before it is written.                     *)
(***************************************************************************)
PreprocessorsAlways ==
    (scall.op \in ScopedGetters \cup ScopedSetters /\ scall.outcome = "ok") =>
        Outcome(OwnPreprocessors)

(***************************************************************************)
(* C11 amended: every scoped get and every scoped set hands the store the  *)
(* plugin's own get / set preprocessors, and so has the entry for the      *)
(* accessed path applied, unless the caller passes a preprocessors         *)
(* keyword argument of its own: then the caller's mapping is handed on     *)
(* and applied in place of the plugin's.                                   *)
(***************************************************************************)
PreprocessorsUnlessPassed ==
    (scall.op \in ScopedGetters \cup ScopedSetters /\ scall.outcome = "ok") =>
        LET used == IF scall.kw.preprocessors.given THEN scall.kw.preprocessors.map
                    ELSE OwnPreprocessors
        IN /\ scall.sent.kw.preprocessors = Given(used)
           /\ Outcome(used)

PreprocessorsWitness ==
    /\ scall.op = "get" /\ scall.key = "baz" /\ scall.path = ListPath(<<"bar">>)
    /\ scall.kw = NoKwargs /\ scall.outcome = "ok"
    /\ HasKey(store, <<"plugins", "baz", "bar">>)
    /\ Lookup(store, <<"plugins", "baz", "bar">>) = 0
    /\ scall.result = 1

(***************************************************************************)
(* C12  Clamping: set_int and set_float with min and/or max, min <= max,   *)
(* hand both limits to the store with the scoped path, and the value       *)
(* stored at the scoped path is min when v < min, max when v > max and v   *)
(* otherwise; the write is never rejected.                                 *)
(***************************************************************************)
Clamping ==
    (/\ scall.op \in {"set_int", "set_float"}
     /\ scall.path.kind = "list"
     /\ (scall.kw.min # NoValue /\ scall.kw.max # NoValue) => scall.kw.min <= scall.kw.max) =>
        /\ scall.outcome = "ok"
        /\ scall.sent.kw.min = scall.kw.min /\ scall.sent.kw.max = scall.kw.max
        /\ HasKey(store, ScopedItems)
        /\ Lookup(store, ScopedItems) =
              IF scall.kw.min # NoValue /\ scall.value < scall.kw.min THEN scall.kw.min
              ELSE IF scall.kw.max # NoValue /\ scall.value > scall.kw.max THEN scall.kw.max
              ELSE scall.value

ClampingWitness ==
    /\ scall.op = "set_int" /\ scall.key = "foo" /\ scall.path = ListPath(<<"n">>)
    /\ scall.value = 2 /\ scall.kw.min = 0 /\ scall.kw.max = 1
    /\ HasKey(store, <<"plugins", "foo", "n">>)
    /\ Lookup(store, <<"plugins", "foo", "n">>) = 1

(***************************************************************************)
(* C13  Conversion failure: get_int, get_float and get_boolean on a        *)
(* stored value that cannot be converted do not raise and return the       *)
(* caller's fallback, or None when none was passed; no typed read changes  *)
(* what is stored.                                                         *)
(***************************************************************************)
TypedReaders == {"get_int", "get_float", "get_boolean"}
ConversionFailureResult ==
    (/\ scall.op \in TypedReaders /\ scall.path.kind = "list"
     /\ HasKey(store, ScopedItems) /\ Lookup(store, ScopedItems) = Text) =>
        /\ scall.outcome = "ok"
        /\ scall.result = scall.kw.fallback
TypedReadStep == scall'.op \in TypedReaders => store' = store
ConversionFailure == []ConversionFailureResult /\ [][TypedReadStep]_vars

ConversionFailureWitness ==
    /\ scall.op = "get_int" /\ scall.key = "foo" /\ scall.kw.fallback = 1
    /\ HasKey(store, <<"plugins", "foo", "n">>)
    /\ Lookup(store, <<"plugins", "foo", "n">>) = Text
    /\ scall.result = 1

(***************************************************************************)
(* C14  Overlay registration: for every overlay dict D, the empty one and  *)
(* those with several keys included, add_overlay(D) registers exactly      *)
(* {"plugins": {plugin_key: D}} with the store and returns the key the     *)
(* store issued; remove_overlay(key) deregisters the overlay of that key.  *)
(***************************************************************************)
TopLayer == overlays.layers[Len(overlays.layers)]
OverlayRegistration ==
    /\ scall.op = "add_overlay" =>
          /\ scall.outcome = "ok"
          /\ scall.result = overlays.issued
          /\ overlays.layers # <<>>
          /\ TopLayer.key = scall.result
          /\ TopLayer.overlay.kind = "dict"
          /\ TopLayer.overlay.map = Nested(scall.key, DictMap(scall.dict))
    /\ scall.op = "remove_overlay" =>
          \A i \in 1..Len(overlays.layers) : overlays.layers[i].key # scall.value

(***************************************************************************)
(* C15  Overlay precedence: a read of ["x"] through the facade of "qux"    *)
(* returns the explicitly stored value, else the value of the most         *)
(* recently added overlay that is still registered and has the key, else   *)
(* the declared default.                                                   *)
(***************************************************************************)
Overlaying(name) ==
    {i \in 1..Len(overlays.layers) :
        HasKey(DictMap(overlays.passed[overlays.layers[i].key]), <<name>>)}
OverlayPrecedence ==
    (scall.op = "get" /\ scall.key = "qux" /\ scall.path = OverlayPath) =>
        /\ scall.outcome = "ok"
        /\ scall.result =
              IF HasKey(store, <<"plugins", "qux", "x">>)
              THEN Lookup(store, <<"plugins", "qux", "x">>)
              ELSE IF Overlaying("x") # {}
              THEN Lookup(DictMap(overlays.passed[overlays.layers[Latest(Overlaying("x"))].key]),
                          <<"x">>)
              ELSE Lookup(Facade("qux").defaults.map, <<"plugins", "qux", "x">>)

(***************************************************************************)
(* C16  Default merging: when the facade was constructed with declared     *)
(* defaults and a scoped read is made with merged semantics, the defaults  *)
(* are applied under ["plugins", plugin_key]: every declared leaf under    *)
(* the path read that has no stored value resolves to its default, every   *)
(* leaf with a stored value to the stored value (each as the get           *)
(* preprocessor of the leaf, if there is one, hands it out).               *)
(***************************************************************************)
MergedRead ==
    /\ scall.op \in {"get", "get_all_data"}
    /\ scall.outcome = "ok"
    /\ scall.sent.kw.merged = 1
    /\ ~scall.kw.defaults.given
    /\ DeclaredDefaults(scall.key) # {}
DefaultMerging ==
    MergedRead =>
        LET under == scall.sent.path.items
            scoped(q) == <<"plugins", scall.key>> \o q
        IN
        /\ \A d \in DeclaredDefaults(scall.key) :
              (IsPrefix(under, scoped(d[1])) /\ ~HasKey(store, scoped(d[1]))) =>
                  /\ HasKey(scall.tree, scoped(d[1]))
                  /\ Lookup(scall.tree, scoped(d[1])) = PreprocessedAt(scall.sent, scoped(d[1]), d[2])
        /\ \A e \in store :
              IsPrefix(under, e[1]) =>
                  /\ HasKey(scall.tree, e[1])
                  /\ Lookup(scall.tree, e[1]) = PreprocessedAt(scall.sent, e[1], e[2])

DefaultMergingWitness ==
    /\ scall.op = "get" /\ scall.key = "qux" /\ scall.path = ListPath(<<>>)
    /\ scall.kw.merged = 1
    /\ HasKey(store, <<"plugins", "qux", "y">>)
    /\ ~HasKey(store, <<"plugins", "qux", "x">>)
    /\ scall.tree = {<<<<"plugins", "qux", "x">>, 0>>,
                     <<<<"plugins", "qux", "y">>, Lookup(store, <<"plugins", "qux", "y">>)>>,
                     <<<<"plugins", "qux", "_config_version">>, NoValue>>}

(***************************************************************************)
(* C17  Bulk operations: get_all_data reads exactly the subtree at         *)
(* ["plugins", plugin_key], with merged and asdict true and the plugin's   *)
(* defaults and get preprocessors unless the caller passes other ones;     *)
(* after clean_all_data no stored value remains under                      *)
(* ["plugins", plugin_key], and the call leaves every value stored         *)
(* outside of it as it was.                                                *)
(***************************************************************************)
BulkRead ==
    scall.op = "get_all_data" =>
        LET self == Facade(scall.key)
            prefix == <<"plugins", scall.key>>
        IN
        /\ scall.outcome = "ok"
        /\ scall.sent.method = "get"
        /\ scall.sent.path = ListPath(prefix)
        /\ scall.sent.kw.merged = IF scall.kw.merged = NoValue THEN 1 ELSE scall.kw.merged
        /\ scall.sent.kw.asdict = IF scall.kw.asdict = NoValue THEN 1 ELSE scall.kw.asdict
        /\ scall.sent.kw.defaults =
              IF scall.kw.defaults.given THEN scall.kw.defaults ELSE self.defaults
        /\ scall.sent.kw.preprocessors =
              IF scall.kw.preprocessors.given THEN scall.kw.preprocessors
              ELSE Given(self.get_preprocessors)
        /\ \A leaf \in scall.tree : IsPrefix(prefix, leaf[1])
        /\ \A e \in store : IsPrefix(prefix, e[1]) => HasKey(scall.tree, e[1])
BulkCleaned ==
    scall.op = "clean_all_data" =>
        /\ scall.outcome = "ok"
        /\ \A e \in store : ~IsPrefix(<<"plugins", scall.key>>, e[1])
BulkCleanStep ==
    scall'.op = "clean_all_data" =>
        /\ store' \subseteq store
        /\ \A e \in store : ~IsPrefix(<<"plugins", scall'.key>>, e[1]) => e \in store'
BulkOperations == [](BulkRead /\ BulkCleaned) /\ [][BulkCleanStep]_vars

BulkOperationsWitness ==
    /\ scall.op = "clean_all_data" /\ scall.key = "qux"
    /\ HasKey(store, <<"plugins", "baz", "bar">>)
    /\ HasKey(store, <<"server", "port">>)

(***************************************************************************)
(* C18  Round-trip, as claimed: writing a data tree for the plugin with    *)
(* set_all_data and then reading with get_all_data returns what was set.   *)
(***************************************************************************)
RoundTripStep ==
    (/\ scall.op = "set_all_data"
     /\ scall'.op = "get_all_data" /\ scall'.key = scall.key /\ scall'.kw = NoKwargs) =>
        /\ scall.outcome = "ok"
        /\ \A i \in 1..Len(scall.dict) :
              LET leaf == <<"plugins", scall.key, scall.dict[i][1]>> IN
              HasKey(scall'.tree, leaf) /\ Lookup(scall'.tree, leaf) = scall.dict[i][2]
RoundTrip == [][RoundTripStep]_vars

(***************************************************************************)
(* C18  Round-trip, amended: a leaf written with set and then read with    *)
(* get_all_data comes back as the value written, passed through the set    *)
(* and the get preprocessor of the leaf where the plugin has them; the     *)
(* leaves written earlier come back as stored, and the leaves never        *)
(* written are exactly the defaults kept by the facade.                    *)
(***************************************************************************)
RoundTripLeafStep ==
    (/\ scall.op = "set" /\ scall.outcome = "ok"
     /\ scall'.op = "get_all_data" /\ scall'.key = scall.key /\ scall'.kw = NoKwargs) =>
        LET prefix == <<"plugins", scall.key>>
            written == prefix \o scall.path.items
            set_pp(v) == PreprocessedAt(scall.sent, written, v)
            get_pp(q, v) == PreprocessedAt(scall'.sent, q, v)
            defaults == Facade(scall.key).defaults.map
        IN
        /\ HasKey(scall'.tree, written)
        /\ Lookup(scall'.tree, written) = get_pp(written, set_pp(scall.value))
        /\ \A e \in store :
              IsPrefix(prefix, e[1]) =>
                  HasKey(scall'.tree, e[1]) /\ Lookup(scall'.tree, e[1]) = get_pp(e[1], e[2])
        /\ \A d \in defaults :
              ~HasKey(store, d[1]) =>
                  HasKey(scall'.tree, d[1]) /\ Lookup(scall'.tree, d[1]) = get_pp(d[1], d[2])
        /\ \A leaf \in scall'.tree : HasKey(store, leaf[1]) \/ HasKey(defaults, leaf[1])
RoundTripLeaves == [][RoundTripLeafStep]_vars

RoundTripWitness ==
    /\ scall.op = "get_all_data" /\ scall.key = "qux" /\ scall.kw = NoKwargs
    /\ HasKey(store, <<"plugins", "qux", "y">>)
    /\ ~HasKey(store, <<"plugins", "qux", "x">>)
    /\ scall.tree = {<<<<"plugins", "qux", "x">>, 0>>,
                     <<<<"plugins", "qux", "y">>, Lookup(store, <<"plugins", "qux", "y">>)>>,
                     <<<<"plugins", "qux", "_config_version">>, NoValue>>}

(***************************************************************************)
(* C19  Filter order: a candidate is checked against the disabled list,    *)
(* the obsolete hooks, the blacklist, its compatibility and the custom     *)
(* validators, in this order, and the first check that rejects decides     *)
(* its state; a plugin that is blacklisted and on the disabled list ends   *)
(* disabled, never rejected-blacklisted.                                   *)
(***************************************************************************)
PipelineStates ==
    <<"disabled", "rejected-obsolete-hook", "rejected-blacklisted", "rejected-incompatible",
      "rejected-validator">>
Rejects(args, c) ==
    LET ignored == c.identifier \in args.compatibility_ignored_list
        obsolete == IF args.plugin_obsolete_hooks.given THEN args.plugin_obsolete_hooks.map
                    ELSE {"octoprint.comm.protocol.gcode"}
    IN <<c.identifier \in args.plugin_disabled_list,
         c.hooks \cap obsolete # {},
         c.identifier \in args.plugin_blacklist /\ ~ignored,
         ~c.compatible /\ ~ignored,
         args.plugin_validators.given /\ ~c.valid>>
FilterOrder ==
    \A i \in 1..Len(loader.found) :
        LET d == loader.found[i]
            r == Rejects(loader.args, d.candidate)
            hits == {k \in 1..Len(r) : r[k]}
        IN
        d.error = "none" =>
            /\ d.state = IF hits = {} THEN "enabled"
                         ELSE PipelineStates[CHOOSE k \in hits : \A j \in hits : k <= j]
            /\ (/\ d.candidate.identifier \in loader.args.plugin_blacklist
                /\ d.candidate.identifier \in loader.args.plugin_disabled_list) =>
                    d.state = "disabled"

FilterOrderWitness ==
    \E i \in 1..Len(loader.found) :
        /\ loader.found[i].candidate.identifier \in loader.args.plugin_blacklist
        /\ loader.found[i].candidate.identifier \in loader.args.plugin_disabled_list
        /\ loader.found[i].candidate.identifier \notin loader.args.compatibility_ignored_list
        /\ loader.found[i].state = "disabled"

(***************************************************************************)
(* C20  Uniqueness: no two enabled descriptors share an identifier; a      *)
(* candidate discovered with an identifier that is already registered is   *)
(* rejected with a conflict error, and the descriptor discovered first     *)
(* stays as it is.                                                         *)
(***************************************************************************)
UniqueEnabled ==
    \A i \in 1..Len(loader.found), j \in 1..Len(loader.found) :
        (i < j /\ loader.found[i].candidate.identifier = loader.found[j].candidate.identifier) =>
            /\ ~(loader.found[i].state = "enabled" /\ loader.found[j].state = "enabled")
            /\ loader.found[j].state = "rejected"
            /\ loader.found[j].error = "conflict"
FirstStays ==
    \A i \in 1..Len(loader.found) :
        Len(loader'.found) >= i /\ loader'.found[i] = loader.found[i]
Uniqueness == []UniqueEnabled /\ [][FirstStays]_vars

UniquenessWitness ==
    /\ Len(loader.found) = 2
    /\ loader.found[1].candidate.identifier = loader.found[2].candidate.identifier
    /\ loader.found[1].candidate.origin # loader.found[2].candidate.origin
    /\ loader.found[1].state = "enabled"
    /\ loader.found[2].error = "conflict"

(***************************************************************************)
(* C29  Failed init leaves the registry uninitialized: when                *)
(* plugin_manager(init=True) fails because constructing the PluginManager  *)
(* raises, the singleton stays unset; the next plugin_manager(init=False)  *)
(* raises "not initialized yet", and the next plugin_manager(init=True)    *)
(* constructs again and can succeed.                                       *)
(***************************************************************************)
FailedInitState ==
    last.outcome = ConstructorError =>
        /\ last.init /\ last.before = None /\ last.made = 0
        /\ _instance = None
        /\ ENABLED (/\ plugin_manager(TRUE, NoArgs)
                    /\ last'.outcome = "return" /\ _instance' # None)
FailedInitStep ==
    (last.outcome = ConstructorError /\ last'.op = "plugin_manager") =>
        /\ ~last'.init => last'.outcome = NotInitialized /\ _instance' = None
        /\ last'.init => last'.outcome \in {"return", ConstructorError}
        /\ (last'.init /\ last'.outcome = "return") => _instance' # None /\ last'.made = 1
FailedInit == []FailedInitState /\ [][FailedInitStep]_vars

FailedInitWitness ==
    /\ last.op = "plugin_manager" /\ last.init
    /\ last.outcome = ConstructorError
    /\ _instance = None

(***************************************************************************)
(* C30  error_callback failures are not isolated: when error_callback      *)
(* itself raises while handling a plugin failure, that exception leaves    *)
(* call_plugin and no later plugin of the list is invoked.                 *)
(***************************************************************************)
ErrorCallbackFailure ==
    \A i \in 1..Len(Log) :
        (Log[i].ev = "error_callback" /\ Log[i].out = "raise") =>
            /\ i = Len(Log)
            /\ dispatch.pc = "raised"
            /\ dispatch.error = <<"error_callback_error", Log[i].inst>>
            /\ dispatch.plugins[dispatch.idx] = Log[i].inst

ErrorCallbackFailureWitness ==
    /\ Log # <<>>
    /\ Log[Len(Log)].ev = "error_callback" /\ Log[Len(Log)].out = "raise"
    /\ dispatch.pc = "raised"
    /\ \E j \in (dispatch.idx + 1)..Len(dispatch.plugins) : invocable(dispatch.plugins[j])

(***************************************************************************)
(* C24  As claimed: plugin_settings_for_settings_plugin returns None when  *)
(* the instance is no SettingsPlugin and whenever its                      *)
(* get_settings_preprocessors raises, and otherwise a PluginSettings for   *)
(* plugin_key with the two mappings the instance returned.                 *)
(***************************************************************************)
FacadeFor(call) ==
    /\ call.result.kind = "PluginSettings"
    /\ call.result.facade.plugin_key = call.key
    /\ call.result.facade.get_preprocessors = Nested(call.key, call.instance.get)
    /\ call.result.facade.set_preprocessors = Nested(call.key, call.instance.set)
SettingsFactory ==
    factory.op = "plugin_settings_for_settings_plugin" =>
        IF ~factory.instance.settings_plugin \/ factory.instance.behaviour # "return"
        THEN factory.result.kind = "None"
        ELSE FacadeFor(factory)

(***************************************************************************)
(* C24  Amended: None when the instance is no SettingsPlugin and when      *)
(* get_settings_preprocessors raises an Exception; a BaseException that is *)
(* no Exception leaves the factory; otherwise the PluginSettings for       *)
(* plugin_key with the two mappings the instance returned.                 *)
(***************************************************************************)
SettingsFactoryAmended ==
    factory.op = "plugin_settings_for_settings_plugin" =>
        IF ~factory.instance.settings_plugin THEN factory.result.kind = "None"
        ELSE IF factory.instance.behaviour = "Exception" THEN factory.result.kind = "None"
        ELSE IF factory.instance.behaviour = "BaseException"
             THEN factory.result.kind = "raised"
        ELSE FacadeFor(factory)

SettingsFactoryWitness ==
    /\ factory.op = "plugin_settings_for_settings_plugin"
    /\ factory.key = "baz" /\ factory.instance.settings_plugin
    /\ factory.instance.behaviour = "return"
    /\ factory.instance.get = {<<<<"bar">>, "succ">>} /\ factory.instance.set = {}
    /\ factory.result.facade.get_preprocessors = {<<<<"plugins", "baz", "bar">>, "succ">>}
    /\ factory.result.facade.set_preprocessors = {}

(***************************************************************************)
(* C25  Path types: every scoped method accepts the relative path as a     *)
(* list or as a tuple, and a tuple path addresses the same scoped store    *)
(* path as the list with the same segments.                                *)
(***************************************************************************)
PathTypes ==
    (scall.op \in ScopedOps /\ scall.path.kind \in {"list", "tuple"}) =>
        /\ scall.outcome = "ok"
        /\ scall.sent.path.items = <<"plugins", scall.key>> \o scall.path.items

(***************************************************************************)
(* C26  Callback interleaving: for each qualifying plugin whose method     *)
(* returns, callback(identifier, instance, result) is invoked exactly once *)
(* with that plugin's identifier, that instance and the returned value,    *)
(* after the method returned and before the next plugin's method is        *)
(* invoked; the method receives exactly the positional and keyword         *)
(* arguments given to call_plugin, and none when they are omitted.         *)
(***************************************************************************)
ArgumentsGiven ==
    IF dispatch.passed = Omitted
    THEN [args |-> <<>>, kwargs |-> {}]
    ELSE [args |-> <<"a">>, kwargs |-> {<<"k", "v">>}]
CallbackInterleaving ==
    \A i \in 1..Len(Log) :
        /\ Log[i].ev = "call" => Log[i].val = <<"args", ArgumentsGiven>>
        /\ (Log[i].ev = "call" /\ Log[i].out = "return" /\ dispatch.cb) =>
               /\ i < Len(Log)
               /\ Log[i + 1].ev = "callback"
               /\ Log[i + 1].inst = Log[i].inst
               /\ Log[i + 1].id = Identifier(Log[i].inst)
               /\ Log[i + 1].val = <<"result", Log[i].inst>>
        /\ Log[i].ev = "callback" =>
               /\ dispatch.cb
               /\ i > 1
               /\ Log[i - 1].ev = "call"
               /\ Log[i - 1].out = "return"
               /\ Log[i - 1].inst = Log[i].inst
CallbackInterleavingWitness ==
    /\ dispatch.pc = "done"
    /\ dispatch.cb
    /\ dispatch.passed.args = <<"a">>
    /\ Len(Log) >= 4
    /\ Log[1].ev = "call" /\ Log[2].ev = "callback"
    /\ Log[3].ev = "call" /\ Log[4].ev = "callback"
    /\ Log[3].inst # Log[1].inst

(***************************************************************************)
(* C27  Pure view: the facade keeps no copy of stored values.  Whatever    *)
(* was written before, through this facade, through another facade of the *)
(* same plugin_key or on the store itself, a scoped read returns what the  *)
(* store holds at ["plugins", plugin_key] + path at that moment: the       *)
(* stored value where there is one, else the facade's default, passed      *)
(* through the facade's get preprocessor and the accessor's conversion.    *)
(***************************************************************************)
HeldAt(key, items) == <<"plugins", key>> \o items
ViewDefault(via, key) ==
    IF via = "facade" /\ key = "baz" THEN 1 ELSE NoValue
ViewGetPreprocessed(via, key, v) ==
    IF via = "facade" /\ key = "baz" /\ v # NoValue THEN (v + 1) % (MaxValue + 1) ELSE v
ViewConverted(op, v) ==
    IF op = "get_boolean" /\ v # NoValue THEN (IF v = 0 THEN 0 ELSE 1) ELSE v
Held(via, key, items) ==
    IF \E e \in store : e[1] = HeldAt(key, items)
    THEN (CHOOSE e \in store : e[1] = HeldAt(key, items))[2]
    ELSE ViewDefault(via, key)
PureView ==
    (scall.op \in ScopedReaders /\ scall.via \in ViewFacades /\ scall.outcome = "ok") =>
        LET held == Held(scall.via, scall.key, scall.path.items) IN
        scall.result =
            IF scall.op = "has" THEN (IF held # NoValue THEN 1 ELSE 0)
            ELSE ViewConverted(scall.op, ViewGetPreprocessed(scall.via, scall.key, held))
\* a read through one facade right after a write through the other or on the store
PureViewWitness ==
    /\ scall.op = "get" /\ scall.via = "facade" /\ scall.key = "foo"
    /\ scall.after.via \in {"second", "store"}
    /\ scall.after.op \in {"set", "settings.set"}
    /\ scall.result = 1
    /\ scall.result = Held("facade", "foo", <<"bar">>)

(***************************************************************************)
(* C28  Namespace isolation: a scoped operation (set, set_int, set_float,  *)
(* set_boolean, remove, clean_all_data) on the facade of plugin A leaves   *)
(* every store value that is not under ["plugins", A] as it was; a step    *)
(* that changes a value outside of the calling facade's subtree is a call  *)
(* of a global_* method.                                                   *)
(***************************************************************************)
Under(key, items) ==
    Len(items) >= 2 /\ items[1] = "plugins" /\ items[2] = key
OutsideOf(key, st) == {e \in st : ~Under(key, e[1])}
NamespaceIsolationStep ==
    /\ scall'.op \in ScopedSetters \cup {"remove", "clean_all_data"} =>
           OutsideOf(scall'.key, store') = OutsideOf(scall'.key, store)
    /\ OutsideOf(scall'.key, store') # OutsideOf(scall'.key, store) =>
           scall'.op \in GlobalSetters \cup {"global_remove"}
NamespaceIsolation == [][NamespaceIsolationStep]_vars
\* plugin "foo" has cleaned its data while the host and plugin "baz" hold values
NamespaceIsolationWitness ==
    /\ scall.op = "clean_all_data" /\ scall.key = "foo"
    /\ OutsideOf("foo", store) =
           {<<<<"server", "port">>, 1>>, <<<<"plugins", "baz", "bar">>, 1>>}
    /\ store = OutsideOf("foo", store)

(***************************************************************************)
(* C21  Concurrent init: under every interleaving of threads that each     *)
(* call plugin_manager(init=True), at most one PluginManager is            *)
(* constructed, at most one call returns (every other call fails), and the *)
(* singleton a thread stored is never replaced.                            *)
(***************************************************************************)
Succeeded == {t \in Threads : threads[t].outcome = "return"}
ConcurrentInit ==
    /\ constructed <= 1
    /\ Cardinality(Succeeded) <= 1
    /\ \A t \in Threads :
          threads[t].pc \in {"returning", "returned"} => _instance = threads[t].made

(***************************************************************************)
(* C22  Dispatch versus mutation: from the moment call_plugin has obtained *)
(* the implementations until it has invoked the last one, no enable or     *)
(* disable takes effect: as long as the dispatch is running, the registry  *)
(* is the one the implementations were obtained from.                      *)
(***************************************************************************)
DispatchVersusMutation ==
    (dispatch.pc = "running" /\ dispatch.mgr = "None") =>
        managers[_instance].state = dispatch.reg.state

(***************************************************************************)
(* C23  Atomic writes: a facade setter, clamping included, is atomic with  *)
(* respect to other writers of the same path.  Under every interleaving of *)
(* concurrent facade setters on one scoped path each write takes effect    *)
(* whole (when its store call returns the store holds the value that       *)
(* setter computed from its own arguments), and the final value is the one *)
(* computed by the setter whose store call came last.                      *)
(***************************************************************************)
\* the value a setter is to write: the raw value for set, the value clamped to
\* the caller's min and max for set_int and set_float
Computed(t) ==
    LET v == threads[t].value
        lo == threads[t].kw.min
        hi == threads[t].kw.max
        up == IF lo # NoValue /\ v < lo THEN lo ELSE v
    IN IF threads[t].op = "set" THEN v
       ELSE IF hi # NoValue /\ up > hi THEN hi ELSE up
Written == {t \in Threads : threads[t].pc = "done"}
RacePath == <<"plugins", "foo", "n">>
Queried == get_implementations(dispatch.reg, dispatch.types, dispatch.ctx)
QueriedInvocable == SelectSeq(Queried, LAMBDA p : HasIdentifier(p) /\ HasMethod(p))
DispatchSnapshot ==
    Dispatched =>
        /\ Len(Invoked) <= Len(QueriedInvocable)
        /\ \A i \in 1..Len(Invoked) : Invoked[i] = QueriedInvocable[i]
        /\ dispatch.pc = "done" => Len(Invoked) = Len(QueriedInvocable)
\* a finished dispatch that invoked a plugin disabled in the meantime, in an
\* order the registry would no longer give
DispatchSnapshotWitness ==
    /\ dispatch.pc = "done"
    /\ Len(Invoked) >= 3
    /\ \E i \in 1..Len(Invoked) : managers[_instance].state[Invoked[i]] = "disabled"
    /\ managers[_instance].sorting_order # dispatch.reg.sorting_order
    /\ get_implementations(managers[_instance], dispatch.types, dispatch.ctx) # Queried

(***************************************************************************)
(* C32  JobData.update(other): when other is a JobData, each of the five   *)
(* fields of the receiver takes other's value exactly when that value is   *)
(* not None and keeps its previous value otherwise; when other is not a    *)
(* JobData nothing changes; other is not modified; and applying the same   *)
(* update twice gives the same state as applying it once.                  *)
(***************************************************************************)
JobDataUpdate ==
    job.applied >= 1 =>
        LET before == job.made[1]
            given == job.made[2]
        IN
        /\ job.self.class = "JobData"
        /\ \A f \in JobFields :
              job.self.fields[f] =
                  IF given.class = "JobData" /\ given.fields[f] # NoValue
                  THEN given.fields[f] ELSE before.fields[f]
        /\ given.class # "JobData" => job.self = before
        /\ job.other = given
        /\ job.applied = 2 => job.self = job.once
\* updated twice from a JobData that sets one field to a falsy value, one to
\* another value and leaves one the receiver had set alone
JobDataUpdateWitness ==
    /\ job.applied = 2
    /\ ~job.aliased
    /\ job.other.class = "JobData"
    /\ job.made[1].fields["user"] = 2 /\ job.other.fields["user"] = NoValue
    /\ job.made[1].fields["file"] = 2 /\ job.other.fields["file"] = 1
    /\ job.other.fields["estimatedPrintTime"] = 0
    /\ job.self.fields["user"] = 2 /\ job.self.fields["file"] = 1
    /\ job.self.fields["estimatedPrintTime"] = 0

====
